---- MODULE Spec2Model ----
(***************************************************************************)
(* A model of the simulation core of neural-mmo: the tile map with its     *)
(* pending-regeneration set (nmmo/core/map.py), the entity groups          *)
(* (nmmo/entity/entity_manager.py), the skills (nmmo/systems/skill.py) and  *)
(* the per-tick GameState with its views (nmmo/task/game_state.py).        *)
(* Each component has its own specification (MapSpec, EntitySpec,          *)
(* SkillSpec, SnapshotSpec, ViewSpec, EventSpec, TickSpec, PathSpec and    *)
(* the specifications of the harvest skills) over the shared variables;    *)
(* Spec is their composition.                                              *)
(***************************************************************************)
EXTENDS Integers, Sequences, FiniteSets, TLC

VARIABLES
  \* ---- Map (nmmo/core/map.py) ----
  map_loaded,     \* FALSE while update_list is None (before the first reset)
  material,       \* tile -> material the tile was reset with (Tile.material)
  depleted,       \* tile -> Tile.depleted
  countdown,      \* tile -> ticks left until the tile regrows
  update_list,    \* Map.update_list: an OrderedSet, a sequence without duplicates
  regrowing,      \* history: tiles depleted by a harvest and not yet regrown
  mapOp           \* history: the last Map call, its arguments, result and pre-state

mapVars == <<map_loaded, material, depleted, countdown, update_list, regrowing, mapOp>>

VARIABLES
  \* ---- EntityGroup and its subclasses (nmmo/entity/entity_manager.py) ----
  cls,                 \* the class of the group: "PlayerManager" or "NPCManager"
  npc_system_enabled,  \* config.NPC_SYSTEM_ENABLED
  entities,            \* EntityGroup.entities: a dict, the sequence of its keys
  dead_this_tick,      \* EntityGroup.dead_this_tick: a dict, the sequence of its keys
  not_alive,           \* the ids of the registered entities whose alive is False
  pos,                 \* id -> Entity.pos, for the registered entities
  occupants,           \* the pairs <<tile, id>> with id in tile.entities
  agent_loader,        \* PlayerManager._agent_loader: -1 for None, else the number
                       \* of behaviors it has supplied
  spawned,             \* PlayerManager.spawned: an OrderedSet
  behavior,            \* id -> the index of the behavior the loader supplied for it
  next_id,             \* NPCManager.next_id
  spawn_dangers,       \* NPCManager.spawn_dangers: a list used as a stack
  spawn_order,         \* history: the ids registered in this episode, in order
  entOp                \* history: the last call on the group and its pre-state

entVars == <<cls, npc_system_enabled, entities, dead_this_tick, not_alive, pos,
             occupants, agent_loader, spawned, behavior, next_id, spawn_dangers,
             spawn_order, entOp>>

VARIABLES
  \* ---- Skill (nmmo/systems/skill.py) ----
  exp,        \* skill -> Skill.exp
  level,      \* skill -> Skill.level.val
  created,    \* the skills whose creation is over (set at creation, or used since)
  skillOp     \* history: the last call on a skill, its argument and pre-state

skillVars == <<exp, level, created, skillOp>>

VARIABLES
  \* ---- GameState and its views (nmmo/task/game_state.py) ----
  realm,         \* the live side: realm.tick and the entity, item and event
                 \* tables of realm.datastore
  issued,        \* TRUE once generate() has returned a GameState
  gs,            \* the GameState returned by the last generate()
  cache_result,  \* GameState.cache_result: a dict, a function from keys to values
  first_ret,     \* history: (table, subject) -> what the first where_in_id call
                 \* on this GameState with that pair returned
  cached_for,    \* history: view key -> the (view, subject, field) access that
                 \* stored the entry
  gsOp           \* history: the last call on the GameState, its arguments and result

gsVars == <<realm, issued, gs, cache_result, first_ret, cached_for, gsOp>>

VARIABLES
  \* ---- Map.pathfinding_cache (nmmo/core/map.py) ----
  pathfinding_cache,  \* Map.pathfinding_cache: a dict, (start, goal) -> path
  pathOp              \* history: the last search through the cache

pathVars == <<pathfinding_cache, pathOp>>

VARIABLES
  \* ---- the harvest skills of one entity (nmmo/systems/skill.py) ----
  ent_pos,     \* entity.pos
  food,        \* entity.resources.food
  water,       \* entity.resources.water
  inventory,   \* entity.inventory: the items it holds
  harvOp       \* history: the last skill update, the Map.harvest calls it made
               \* and its pre-state

harvVars == <<ent_pos, food, water, inventory, harvOp>>

vars == <<mapVars, entVars, skillVars, gsVars, pathVars, harvVars>>

\* what the calls on one component leave alone
notMapVars == <<entVars, skillVars, gsVars, pathVars, harvVars>>
notEntVars == <<mapVars, skillVars, gsVars, pathVars, harvVars>>
notSkillVars == <<mapVars, entVars, gsVars, pathVars, harvVars>>
notGsVars == <<mapVars, entVars, skillVars, pathVars, harvVars>>
notPathVars == <<mapVars, entVars, skillVars, gsVars, harvVars>>
\* a skill update acts on the map, the skills and the entity
notHarvVars == <<entVars, gsVars, pathVars>>

----------------------------------------------------------------------------
(* Bounds of the model *)

\* config.MAP_BORDER and config.MAP_CENTER: the play area is the square
\* [MAP_BORDER, MAP_BORDER + MAP_CENTER) in both coordinates
MAP_BORDER == 1
MAP_CENTER == 2
\* config.MAP_SIZE: the grid is MAP_SIZE x MAP_SIZE
MAP_SIZE == MAP_CENTER + 2 * MAP_BORDER
\* config.PLAYER_N: the number of player slots
PLAYER_N == 2
\* config.NPC_N: the target population of the NPCs
NPC_N == 2
\* config.NPC_SPAWN_ATTEMPTS: the placement attempts of one NPCManager.spawn()
NPC_SPAWN_ATTEMPTS == 2
\* NPCManager.spawn is not called once next_id has passed -MaxNpcId
MaxNpcId == 4
\* harvest is called on the tiles (0, 0) .. (0, MaxHarvestCol)
MaxHarvestCol == 2
\* the number of different terrains reset() is called with
NumMaps == 2
\* the configured number of ticks a depleted tile needs to regrow
REGEN_TICKS == 2
\* the number of levels of the experience curve
NumLevels == 3
\* add_xp is not called once the experience would pass MaxExp
MaxExp == 5
\* add_xp is called with xp in 0..MaxXp
MaxXp == 2
\* config.PROGRESSION_BASE_XP_SCALE
PROGRESSION_BASE_XP_SCALE == 1

----------------------------------------------------------------------------
(* Helpers: Python containers *)

None == <<>>

Range(s) == {s[i] : i \in 1..Len(s)}

InSeq(x, s) == \E i \in 1..Len(s) : s[i] = x

\* OrderedSet.add / the insertion of a new key in a dict: append unless present
OrderedAdd(s, x) == IF InSeq(x, s) THEN s ELSE Append(s, x)

\* OrderedSet.remove / del dict[key]: the other elements keep their order
OrderedRemove(s, x) == SelectSeq(s, LAMBDA y : y # x)

NoDup(s) == \A i, j \in 1..Len(s) : s[i] = s[j] => i = j

----------------------------------------------------------------------------
(* Tiles and materials *)

Tiles == (0..(MAP_SIZE - 1)) \X (0..(MAP_SIZE - 1))

HarvestArea == {0} \X (0..MaxHarvestCol)

MapDicts == 1..NumMaps

Harvestable == {"Forest", "Ore", "Water", "Fish", "Herb", "Tree", "Crystal"}

MaterialCycle == <<"Grass", "Fish", "Water", "Forest">>

\* Map._process_map: the material grid the terrain collaborator yields for a map_dict
MatlMap(md) ==
  [t \in Tiles |-> MaterialCycle[((2 * t[1] + t[2] + md) % Len(MaterialCycle)) + 1]]

\* the loot table of a material
LootTable(mat) == <<mat>>

\* Tile.state: the material, or its depleted form while the tile is depleted
TileStateOf(dep, mat) == IF dep THEN "Depleted" ELSE mat

TileState(t) == TileStateOf(depleted[t], material[t])

\* Tile.harvest(deplete), result: the loot table if the tile holds a harvestable
\* resource, else nothing
TileHarvestRet(t) ==
  IF TileState(t) \in Harvestable THEN LootTable(material[t]) ELSE None

\* Tile.harvest(deplete), effect: a harvestable tile harvested with deplete is
\* marked depleted and its regeneration countdown starts
TileHarvestDepletes(t, deplete) == deplete /\ TileState(t) \in Harvestable

\* Tile.step: a depleted tile counts down and is restored when the countdown ends
TileStep(dep, cd) ==
  IF ~dep THEN [dep |-> dep, cd |-> cd, restored |-> FALSE]
  ELSE IF cd <= 1 THEN [dep |-> FALSE, cd |-> 0, restored |-> TRUE]
  ELSE [dep |-> TRUE, cd |-> cd - 1, restored |-> FALSE]

----------------------------------------------------------------------------
(* Map *)

NoMapOp ==
  [op |-> "none", tile |-> <<0, 0>>, deplete |-> FALSE, ret |-> None,
   preState |-> "Void", preRegrowing |-> FALSE, restored |-> {}, preList |-> <<>>]

MapInit ==
  /\ map_loaded = FALSE
  /\ material = [t \in Tiles |-> "Void"]
  /\ depleted = [t \in Tiles |-> FALSE]
  /\ countdown = [t \in Tiles |-> 0]
  /\ update_list = <<>>
  /\ regrowing = {}
  /\ mapOp = NoMapOp

\* Map.reset: a fresh update_list, every tile reset with its new material;
\* no statement of reset touches pathfinding_cache
MapReset(md) ==
  /\ map_loaded' = TRUE
  /\ update_list' = <<>>
  /\ material' = MatlMap(md)
  /\ depleted' = [t \in Tiles |-> FALSE]
  /\ countdown' = [t \in Tiles |-> 0]
  /\ regrowing' = {}
  /\ mapOp' = [NoMapOp EXCEPT !.op = "reset"]
  /\ UNCHANGED notMapVars

HarvestRegister_Skip(ul, t, deplete) == ul

HarvestRegister_Always(ul, t, deplete) == OrderedAdd(ul, t)

\* Map.harvest: if deplete, the tile is added to update_list
HarvestRegister(ul, t, deplete) == IF deplete THEN OrderedAdd(ul, t) ELSE ul

HarvestReturn_Stale(t, deplete) == LootTable(material[t])

\* Map.harvest: the value returned is the tile's
HarvestReturn(t, deplete) == TileHarvestRet(t)

\* Map.harvest(r, c, deplete)
MapHarvest(r, c, deplete) ==
  LET t == <<r, c>>
      ret == HarvestReturn(t, deplete)
      dep == TileHarvestDepletes(t, deplete)
  IN /\ map_loaded
     /\ update_list' = HarvestRegister(update_list, t, deplete)
     /\ depleted' = [depleted EXCEPT ![t] = @ \/ dep]
     /\ countdown' = [countdown EXCEPT ![t] = IF dep THEN REGEN_TICKS ELSE @]
     /\ regrowing' = IF dep THEN regrowing \cup {t} ELSE regrowing
     /\ mapOp' = [NoMapOp EXCEPT !.op = "harvest", !.tile = t, !.deplete = deplete,
                                 !.ret = ret, !.preState = TileState(t),
                                 !.preRegrowing = (t \in regrowing),
                                 !.preList = update_list]
     /\ UNCHANGED <<map_loaded, material, notMapVars>>

StepTile_RemoveAlways(st, t) ==
  LET ts == TileStep(st.dep[t], st.cd[t])
  IN [ul       |-> OrderedRemove(st.ul, t),
      dep      |-> [st.dep EXCEPT ![t] = ts.dep],
      cd       |-> [st.cd EXCEPT ![t] = ts.cd],
      restored |-> IF ts.restored THEN st.restored \cup {t} ELSE st.restored]

\* Map.step, the body of the loop for one tile of the copy: a tile that is not
\* depleted is removed from update_list, then the tile steps
StepTile(st, t) ==
  LET ts == TileStep(st.dep[t], st.cd[t])
  IN [ul       |-> IF ~st.dep[t] THEN OrderedRemove(st.ul, t) ELSE st.ul,
      dep      |-> [st.dep EXCEPT ![t] = ts.dep],
      cd       |-> [st.cd EXCEPT ![t] = ts.cd],
      restored |-> IF ts.restored THEN st.restored \cup {t} ELSE st.restored]

RECURSIVE StepLoop(_, _)
\* Map.step, the loop over update_list.copy()
StepLoop(copy, st) ==
  IF copy = <<>> THEN st ELSE StepLoop(Tail(copy), StepTile(st, Head(copy)))

\* Map.step()
MapStep ==
  LET st == StepLoop(update_list,
                     [ul |-> update_list, dep |-> depleted, cd |-> countdown,
                      restored |-> {}])
  IN /\ map_loaded
     /\ update_list' = st.ul
     /\ depleted' = st.dep
     /\ countdown' = st.cd
     /\ regrowing' = regrowing \ st.restored
     /\ mapOp' = [NoMapOp EXCEPT !.op = "step", !.restored = st.restored,
                                 !.preList = update_list]
     /\ UNCHANGED <<map_loaded, material, notMapVars>>

MapNext ==
  \/ \E md \in MapDicts : MapReset(md)
  \/ \E t \in HarvestArea, deplete \in BOOLEAN : MapHarvest(t[1], t[2], deplete)
  \/ MapStep


----------------------------------------------------------------------------
(* C1..C3: the map *)

\* C1: from the harvest that depletes a tile until the step in which the tile
\* regrows, every Map.harvest call on that tile returns no loot table.
C1_DepletedTileGivesNoLoot ==
  (mapOp.op = "harvest" /\ mapOp.preRegrowing) => mapOp.ret = None

\* a harvest on a tile that is waiting to regrow has just returned
C1_Witness ==
  /\ mapOp.op = "harvest"
  /\ mapOp.preRegrowing
  /\ mapOp.ret = None
  /\ depleted[mapOp.tile]

\* C2: when Map.step returns, every tile that regrew during the call is
\* harvestable and no longer in update_list, and every depleted tile is in it.
C2_StepRemovesRestored ==
  mapOp.op = "step" =>
    /\ \A t \in mapOp.restored : ~depleted[t] /\ ~InSeq(t, update_list)
    /\ \A t \in Tiles : depleted[t] => InSeq(t, update_list)

\* C3: harvest(r, c, deplete=True) on a harvestable tile leaves the tile depleted
\* and in update_list and returns the loot table of the tile's state before the
\* call; harvest on a tile that holds no harvestable resource returns nothing.
C3_HarvestDepletesAndRegisters ==
  mapOp.op = "harvest" =>
    IF mapOp.preState \in Harvestable
    THEN /\ mapOp.ret = LootTable(mapOp.preState)
         /\ mapOp.deplete =>
              /\ depleted[mapOp.tile]
              /\ TileState(mapOp.tile) \notin Harvestable
              /\ InSeq(mapOp.tile, update_list)
    ELSE mapOp.ret = None

\* a depleting harvest of a harvestable tile has just returned its loot table
C3_Witness ==
  /\ mapOp.op = "harvest"
  /\ mapOp.deplete
  /\ mapOp.preState \in Harvestable
  /\ mapOp.ret # None
  /\ depleted[mapOp.tile]
  /\ ~InSeq(mapOp.tile, mapOp.preList)

\* C27: in every state reached from Map.reset by harvest and step calls, every
\* depleted tile is in update_list; step removes a tile only while it is not
\* depleted.
C27_DepletedTilesPending ==
  /\ map_loaded => \A t \in Tiles : depleted[t] => InSeq(t, update_list)
  /\ mapOp.op = "step" =>
       \A t \in Range(mapOp.preList) \ Range(update_list) : ~depleted[t]

\* a step() has removed a tile that had regrown and kept one that is depleted
C27_Witness ==
  /\ mapOp.op = "step"
  /\ \E t \in Range(mapOp.preList) : ~InSeq(t, update_list)
  /\ \E t \in Tiles : depleted[t] /\ InSeq(t, update_list)

----------------------------------------------------------------------------
(* Entity groups *)

PlayArea ==
  (MAP_BORDER..(MAP_BORDER + MAP_CENTER - 1)) \X (MAP_BORDER..(MAP_BORDER + MAP_CENTER - 1))

\* SequentialLoader.get_spawn_position(idx): a tile of the play area for each slot
SpawnPosition(idx) ==
  <<MAP_BORDER + (((idx - 1) \div MAP_CENTER) % MAP_CENTER),
    MAP_BORDER + ((idx - 1) % MAP_CENTER)>>

\* combat.danger(config, pos): the danger value of a position
Danger(p) == (p[1] + p[2]) % 2

\* combat.spawn(config, danger): the positions a placement biased by danger can get
CombatSpawn(danger) == {p \in PlayArea : Danger(p) = danger}

\* the state of a group, as the operators below pass it along
GroupState ==
  [entities |-> entities, dead_this_tick |-> dead_this_tick, not_alive |-> not_alive,
   pos |-> pos, occupants |-> occupants, agent_loader |-> agent_loader,
   spawned |-> spawned, behavior |-> behavior, next_id |-> next_id,
   spawn_order |-> spawn_order]

SetGroupState(st) ==
  /\ entities' = st.entities
  /\ dead_this_tick' = st.dead_this_tick
  /\ not_alive' = st.not_alive
  /\ pos' = st.pos
  /\ occupants' = st.occupants
  /\ agent_loader' = st.agent_loader
  /\ spawned' = st.spawned
  /\ behavior' = st.behavior
  /\ next_id' = st.next_id
  /\ spawn_order' = st.spawn_order

NoEntOp ==
  [op |-> "none", preEntities |-> <<>>, preDead |-> <<>>, preNotAlive |-> {},
   prePos |-> <<>>, preSpawned |-> <<>>, preLoader |-> 0,
   culledEntities |-> <<>>, culledDead |-> <<>>, log |-> <<>>,
   attempts |-> <<>>, preDangers |-> <<>>]

\* the record of a call: the pre-state the statements about that call refer to
PreEntOp(op) ==
  IF op = "cull"
  THEN [NoEntOp EXCEPT !.op = op, !.preEntities = entities, !.preDead = dead_this_tick,
                       !.preNotAlive = not_alive, !.prePos = pos]
  ELSE IF op = "spawn"
  THEN [NoEntOp EXCEPT !.op = op, !.preEntities = entities, !.preDead = dead_this_tick,
                       !.preSpawned = spawned, !.preLoader = agent_loader]
  ELSE IF op = "update"
  THEN [NoEntOp EXCEPT !.op = op, !.preDead = dead_this_tick]
  ELSE [NoEntOp EXCEPT !.op = op]

EntityInit ==
  /\ cls \in {"PlayerManager", "NPCManager"}
  /\ npc_system_enabled \in (IF cls = "NPCManager" THEN BOOLEAN ELSE {FALSE})
  /\ entities = <<>>
  /\ dead_this_tick = <<>>
  /\ not_alive = {}
  /\ pos = <<>>
  /\ occupants = {}
  /\ agent_loader = -1
  /\ spawned = <<>>
  /\ behavior = <<>>
  /\ next_id = -1
  /\ spawn_dangers = <<>>
  /\ spawn_order = <<>>
  /\ entOp = NoEntOp

\* a function without the key k
Without(f, k) == [x \in (DOMAIN f) \ {k} |-> f[x]]

EntityGroupSpawn_Front(st, id, p) ==
  [st EXCEPT !.occupants = @ \cup {<<p, id>>},
             !.entities = IF InSeq(id, @) THEN @ ELSE <<id>> \o @,
             !.pos = (id :> p) @@ @,
             !.spawn_order = Append(@, id)]

\* EntityGroup.spawn(entity): the tile gets the entity, entities[ent_id] = entity
EntityGroupSpawn(st, id, p) ==
  [st EXCEPT !.occupants = @ \cup {<<p, id>>},
             !.entities = OrderedAdd(@, id),
             !.pos = (id :> p) @@ @,
             !.spawn_order = Append(@, id)]

CullInitDead_KeepPlayers(dead) == SelectSeq(dead, LAMBDA id : id > 0)

\* EntityGroup.cull: self.dead_this_tick = {}
CullInitDead(dead) == <<>>

CullOne_KeepOccupant(st, id) ==
  IF id \in st.not_alive
  THEN [st EXCEPT !.dead_this_tick = OrderedAdd(@, id),
                  !.entities = OrderedRemove(@, id),
                  !.pos = Without(@, id),
                  !.behavior = Without(@, id),
                  !.not_alive = @ \ {id}]
  ELSE st

\* EntityGroup.cull, the body of the loop for one id of list(self.entities): an
\* entity that is not alive goes to dead_this_tick, leaves its tile and the map
CullOne(st, id) ==
  IF id \in st.not_alive
  THEN [st EXCEPT !.dead_this_tick = OrderedAdd(@, id),
                  !.occupants = @ \ {<<st.pos[id], id>>},
                  !.entities = OrderedRemove(@, id),
                  !.pos = Without(@, id),
                  !.behavior = Without(@, id),
                  !.not_alive = @ \ {id}]
  ELSE st

RECURSIVE CullLoop(_, _)
\* EntityGroup.cull, the loop over list(self.entities)
CullLoop(ids, st) ==
  IF ids = <<>> THEN st ELSE CullLoop(Tail(ids), CullOne(st, Head(ids)))

\* EntityGroup.cull()
EntityGroupCull(st) ==
  CullLoop(st.entities, [st EXCEPT !.dead_this_tick = CullInitDead(@)])

\* EntityGroup.reset: both maps are emptied; the tiles lose their occupants when
\* the map is reset for the new episode
EntityGroupReset(st) ==
  [st EXCEPT !.entities = <<>>, !.dead_this_tick = <<>>, !.not_alive = {},
             !.pos = <<>>, !.behavior = <<>>, !.occupants = {},
             !.spawn_order = <<>>]

\* EntityGroup.update(actions): every entity of the live map is updated, in the
\* order of the map; an update can leave entities dead, never unregisters them
EntityGroupUpdate(died) ==
  /\ died \subseteq (Range(entities) \ not_alive)
  /\ not_alive' = not_alive \cup died
  /\ entOp' = [PreEntOp("update") EXCEPT !.log = entities]
  /\ UNCHANGED <<cls, npc_system_enabled, entities, dead_this_tick, pos, occupants,
                 agent_loader, spawned, behavior, next_id, spawn_dangers, spawn_order,
                 notEntVars>>

(* PlayerManager *)

\* PlayerManager.reset(): a new agent loader and an empty spawned set
PlayerReset ==
  /\ cls = "PlayerManager"
  /\ SetGroupState([EntityGroupReset(GroupState) EXCEPT !.agent_loader = 0,
                                                        !.spawned = <<>>])
  /\ entOp' = PreEntOp("reset")
  /\ UNCHANGED <<cls, npc_system_enabled, spawn_dangers, notEntVars>>

SpawnIndividual_NoRecord(st, p, idx) ==
  [EntityGroupSpawn(st, idx, p) EXCEPT
     !.agent_loader = @ + 1,
     !.behavior = (idx :> (st.agent_loader + 1)) @@ @]

SpawnIndividual_SameAgent(st, p, idx) ==
  [EntityGroupSpawn(st, idx, p) EXCEPT
     !.agent_loader = IF @ = 0 THEN 1 ELSE @,
     !.behavior = (idx :> 1) @@ @,
     !.spawned = OrderedAdd(@, idx)]

\* PlayerManager.spawn_individual(r, c, idx): the next behavior of the loader is
\* bound to the new player, the player is registered, idx is added to spawned
SpawnIndividual(st, p, idx) ==
  [EntityGroupSpawn(st, idx, p) EXCEPT
     !.agent_loader = @ + 1,
     !.behavior = (idx :> (st.agent_loader + 1)) @@ @,
     !.spawned = OrderedAdd(@, idx)]

RECURSIVE PlayerSpawnLoop(_, _)
\* PlayerManager.spawn, the while loop from idx = 0: idx += 1, a slot that is live or in
\* spawned is skipped, the others are spawned
PlayerSpawnLoop(idx, st) ==
  IF ~(idx < PLAYER_N) THEN st
  ELSE LET i == idx + 1
       IN IF InSeq(i, st.entities) \/ InSeq(i, st.spawned)
          THEN PlayerSpawnLoop(i, st)
          ELSE PlayerSpawnLoop(i, SpawnIndividual(st, SpawnPosition(i), i))

\* PlayerManager.spawn(); it fails while the loader is None (before reset)
PlayerSpawn ==
  /\ cls = "PlayerManager"
  /\ agent_loader >= 0
  /\ SetGroupState(PlayerSpawnLoop(0, GroupState))
  /\ entOp' = PreEntOp("spawn")
  /\ UNCHANGED <<cls, npc_system_enabled, spawn_dangers, notEntVars>>

\* PlayerManager.cull() is EntityGroup.cull()
PlayerCull ==
  LET st == EntityGroupCull(GroupState)
  IN /\ cls = "PlayerManager"
     /\ SetGroupState(st)
     /\ entOp' = [PreEntOp("cull") EXCEPT !.culledEntities = st.entities,
                                          !.culledDead = st.dead_this_tick]
     /\ UNCHANGED <<cls, npc_system_enabled, spawn_dangers, notEntVars>>

(* NPCManager *)

\* NPCManager.spawn: the positions an attempt can draw, by the top of the stack
AttemptPositions(dangers) ==
  IF dangers # <<>> THEN CombatSpawn(dangers[Len(dangers)]) ELSE PlayArea

\* what one placement attempt yields: NPC.spawn gives no npc, or an npc at the
\* position drawn
AttemptChoices(dangers) ==
  {[ok |-> FALSE, pos |-> None]} \cup [ok : {TRUE}, pos : AttemptPositions(dangers)]

NPCAttempt_SameId(st, ch) ==
  IF ch.ok THEN EntityGroupSpawn(st, st.next_id, ch.pos) ELSE st

\* NPCManager.spawn, one attempt: NPC.spawn with next_id; if it yields an npc the
\* npc is registered and next_id decreases
NPCAttempt(st, ch) ==
  IF ch.ok
  THEN [EntityGroupSpawn(st, st.next_id, ch.pos) EXCEPT !.next_id = @ - 1]
  ELSE st

LoopEnds_NoTarget(i, population) == i > NPC_SPAWN_ATTEMPTS

\* NPCManager.spawn: the range of the for loop is exhausted, or the loop breaks
\* because len(self.entities) >= config.NPC_N
LoopEnds(i, population) == i > NPC_SPAWN_ATTEMPTS \/ population >= NPC_N

RECURSIVE NPCSpawnLoop(_, _, _)
\* NPCManager.spawn, the for loop: at most NPC_SPAWN_ATTEMPTS attempts, none once
\* the population has reached NPC_N. The set of its outcomes, each with the
\* attempts made.
NPCSpawnLoop(i, r, dangers) ==
  IF LoopEnds(i, Len(r.st.entities)) THEN {r}
  ELSE UNION {
         NPCSpawnLoop(i + 1,
           [st       |-> NPCAttempt(r.st, ch),
            attempts |-> Append(r.attempts,
                           [id |-> r.st.next_id, pos |-> ch.pos, ok |-> ch.ok,
                            danger |-> IF dangers # <<>> THEN dangers[Len(dangers)]
                                       ELSE -1])],
           dangers) : ch \in AttemptChoices(dangers) }

\* NPCManager.spawn: if self.spawn_dangers: self.spawn_dangers.pop()
PopDanger(dangers) ==
  IF dangers # <<>> THEN SubSeq(dangers, 1, Len(dangers) - 1) ELSE dangers

\* NPCManager.spawn(): nothing if the NPC system is disabled; else the loop, and
\* then the pop. The set of its outcomes.
NPCSpawnOp(st, dangers) ==
  IF ~npc_system_enabled
  THEN {[st |-> st, attempts |-> <<>>, dangers |-> dangers]}
  ELSE {[st |-> r.st, attempts |-> r.attempts, dangers |-> PopDanger(dangers)] :
          r \in NPCSpawnLoop(1, [st |-> st, attempts |-> <<>>], dangers)}

\* NPCManager.reset()
NPCReset ==
  /\ cls = "NPCManager"
  /\ SetGroupState([EntityGroupReset(GroupState) EXCEPT !.next_id = -1])
  /\ spawn_dangers' = <<>>
  /\ entOp' = PreEntOp("reset")
  /\ UNCHANGED <<cls, npc_system_enabled, notEntVars>>

\* NPCManager.spawn()
NPCSpawn ==
  /\ cls = "NPCManager"
  /\ -next_id <= MaxNpcId
  /\ \E r \in NPCSpawnOp(GroupState, spawn_dangers) :
       /\ SetGroupState(r.st)
       /\ spawn_dangers' = r.dangers
       /\ entOp' = [PreEntOp("spawn") EXCEPT !.attempts = r.attempts,
                                             !.preDangers = spawn_dangers]
  /\ UNCHANGED <<cls, npc_system_enabled, notEntVars>>

PushDangers_None(dangers, dead, prePos) == dangers

RECURSIVE PushDangers(_, _, _)
\* NPCManager.cull: the spawn_danger of every culled entity is appended
PushDangers(dangers, dead, prePos) ==
  IF dead = <<>> THEN dangers
  ELSE PushDangers(Append(dangers, Danger(prePos[Head(dead)])), Tail(dead), prePos)

\* NPCManager.cull(): the generic cull, the push of the dangers, the refill spawn
NPCCull ==
  LET culled == EntityGroupCull(GroupState)
      pushed == PushDangers(spawn_dangers, culled.dead_this_tick, pos)
  IN /\ cls = "NPCManager"
     /\ -next_id <= MaxNpcId
     /\ \E r \in NPCSpawnOp(culled, pushed) :
          /\ SetGroupState(r.st)
          /\ spawn_dangers' = r.dangers
          /\ entOp' = [PreEntOp("cull") EXCEPT !.culledEntities = culled.entities,
                                               !.culledDead = culled.dead_this_tick,
                                               !.attempts = r.attempts,
                                               !.preDangers = pushed]
     /\ UNCHANGED <<cls, npc_system_enabled, notEntVars>>

\* EntityGroup.update(actions), with the entities it leaves dead
Update == \E died \in SUBSET Range(entities) : EntityGroupUpdate(died)

EntityNext ==
  \/ Update
  \/ PlayerReset
  \/ PlayerSpawn
  \/ PlayerCull
  \/ NPCReset
  \/ NPCSpawn
  \/ NPCCull

\* the number of placements among the first n attempts
PlacedIn(attempts, n) == Cardinality({i \in 1..n : attempts[i].ok})

\* the population the attempts of the last spawn() started from
PopulationAtSpawn ==
  IF entOp.op = "cull" THEN Len(entOp.culledEntities) ELSE Len(entOp.preEntities)

RECURSIVE Corporeal(_, _)
\* EntityGroup.corporeal: {**self.entities, **self.dead_this_tick}, its keys
Corporeal(live, dead) ==
  IF dead = <<>> THEN live ELSE Corporeal(OrderedAdd(live, Head(dead)), Tail(dead))

----------------------------------------------------------------------------
(* C4..C9: the entity groups *)

\* C4: when EntityGroup.cull returns, dead_this_tick is exactly the entities that
\* were in the live map and not alive at the call, whatever it held before, the
\* live map holds the others in their previous order, the two maps are disjoint
\* and no culled entity is an occupant of its tile any more.
C4_CullPartitions ==
  entOp.op = "cull" =>
    LET deadBefore == SelectSeq(entOp.preEntities, LAMBDA id : id \in entOp.preNotAlive)
        liveBefore == SelectSeq(entOp.preEntities, LAMBDA id : id \notin entOp.preNotAlive)
    IN /\ entOp.culledDead = deadBefore
       /\ entOp.culledEntities = liveBefore
       /\ dead_this_tick = deadBefore
       /\ cls = "PlayerManager" => entities = liveBefore
       /\ SubSeq(entities, 1, Len(liveBefore)) = liveBefore
       /\ Range(entities) \cap Range(dead_this_tick) = {}
       /\ \A id \in Range(deadBefore) : <<entOp.prePos[id], id>> \notin occupants

\* a cull with deaths and survivors, called while dead_this_tick held the dead of
\* the cull before
C4_Witness ==
  /\ entOp.op = "cull"
  /\ entOp.culledDead # <<>>
  /\ entOp.culledEntities # <<>>
  /\ entOp.preDead # <<>>
  /\ entOp.preDead # entOp.culledDead

\* C5: an entity that has died is out of the live map and in dead_this_tick (and
\* in corporeal) after the next cull and until the cull that follows; after that
\* one it is in neither map.
C5_DeadRetainedOneTick ==
  /\ entOp.op = "cull" =>
       /\ \A id \in Range(entOp.preEntities) \cap entOp.preNotAlive :
            /\ ~InSeq(id, entities)
            /\ InSeq(id, dead_this_tick)
            /\ InSeq(id, Corporeal(entities, dead_this_tick))
       /\ \A id \in Range(entOp.preDead) :
            ~InSeq(id, entities) /\ ~InSeq(id, dead_this_tick)
  /\ entOp.op \in {"spawn", "update"} =>
       /\ dead_this_tick = entOp.preDead
       /\ \A id \in Range(dead_this_tick) :
            ~InSeq(id, entities) /\ InSeq(id, Corporeal(entities, dead_this_tick))

\* the cull after the one that moved an entity to dead_this_tick has returned
C5_Witness ==
  /\ entOp.op = "cull"
  /\ entOp.preDead # <<>>
  /\ entities # <<>>
  /\ \A id \in Range(entOp.preDead) :
       ~InSeq(id, entities) /\ ~InSeq(id, dead_this_tick)

\* C6: the ids of the live players are positive and each is held once; the ids
\* NPCManager assigns are negative and each is smaller than all assigned before
\* it in the episode, so none is assigned twice, culled or not.
C6_EntityIds ==
  /\ cls = "PlayerManager" =>
       /\ \A i \in 1..Len(entities) : entities[i] > 0
       /\ NoDup(entities)
  /\ cls = "NPCManager" =>
       /\ \A i \in 1..Len(spawn_order) : spawn_order[i] < 0
       /\ \A i, j \in 1..Len(spawn_order) : i < j => spawn_order[j] < spawn_order[i]
       /\ \A i \in 1..Len(entities) : entities[i] > next_id

\* an NPC has been culled and, in the refill, an id whose first placement attempt
\* failed was assigned by the next attempt
C6_Witness ==
  /\ cls = "NPCManager"
  /\ Len(spawn_order) >= 3
  /\ \E i \in 1..Len(spawn_order) : ~InSeq(spawn_order[i], entities)
  /\ \E i, j \in 1..Len(entOp.attempts) :
       /\ i < j
       /\ ~entOp.attempts[i].ok
       /\ entOp.attempts[j].ok
       /\ entOp.attempts[i].id = entOp.attempts[j].id

\* C22: a spawn() call of NPCManager makes at most NPC_SPAWN_ATTEMPTS placement
\* attempts, and none once the population has reached NPC_N (it stops early
\* only for that reason); so the live population never exceeds NPC_N, and with
\* the NPC system disabled no entity is ever created.
C22_SpawnBounded ==
  cls = "NPCManager" =>
    /\ Len(entities) <= NPC_N
    /\ entOp.op \in {"spawn", "cull"} =>
         /\ Len(entOp.attempts) <= NPC_SPAWN_ATTEMPTS
         /\ \A i \in 1..Len(entOp.attempts) :
              PopulationAtSpawn + PlacedIn(entOp.attempts, i - 1) < NPC_N
         /\ Len(entities) =
              PopulationAtSpawn + PlacedIn(entOp.attempts, Len(entOp.attempts))
         /\ (npc_system_enabled /\ Len(entOp.attempts) < NPC_SPAWN_ATTEMPTS) =>
              Len(entities) >= NPC_N
    /\ ~npc_system_enabled =>
         entities = <<>> /\ spawn_order = <<>> /\ entOp.attempts = <<>>

\* a spawn() that stopped before its last attempt, the population having
\* reached NPC_N with a placement
C22_Witness ==
  /\ cls = "NPCManager"
  /\ entOp.op = "spawn"
  /\ Len(entOp.attempts) > 0
  /\ Len(entOp.attempts) < NPC_SPAWN_ATTEMPTS
  /\ entOp.attempts[Len(entOp.attempts)].ok
  /\ Len(entities) = NPC_N

\* the value on top of a stack
Top(stack) == stack[Len(stack)]

\* the last call was a spawn() of NPCManager, on its own or as the refill of cull()
NPCSpawned == cls = "NPCManager" /\ entOp.op \in {"spawn", "cull"}

\* C23: the danger stack is last-in-first-out with pop after use: a placement
\* made while the stack is non-empty uses the value on top, a value leaves the
\* stack only in a spawn() call that used it for a placement, and a value
\* biases at most one placement; with the stack empty the position is drawn
\* inside the play area.
C23_DangerPopAfterUse ==
  NPCSpawned =>
    /\ \A i \in 1..Len(entOp.attempts) :
         LET a == entOp.attempts[i]
         IN IF entOp.preDangers # <<>>
            THEN /\ a.danger = Top(entOp.preDangers)
                 /\ a.ok => a.pos \in CombatSpawn(Top(entOp.preDangers))
            ELSE a.ok => a.pos \in PlayArea
    /\ spawn_dangers # entOp.preDangers =>
         /\ spawn_dangers = PopDanger(entOp.preDangers)
         /\ PlacedIn(entOp.attempts, Len(entOp.attempts)) >= 1
    /\ entOp.preDangers # <<>> =>
         PlacedIn(entOp.attempts, Len(entOp.attempts)) <= 1

\* the danger values of the entities culled by the last cull, in cull order
CulledDangers ==
  [i \in 1..Len(entOp.culledDead) |-> Danger(entOp.prePos[entOp.culledDead[i]])]

\* the last n values of a stack, bottom first
TopN(stack, n) == SubSeq(stack, Len(stack) - n + 1, Len(stack))

\* C24: NPCManager.cull() is the generic cull, then the push of the danger
\* value of every entity culled in the call, in cull order, then a refill
\* spawn(), which sees those values; if the population was NPC_N before the
\* deaths, the deaths are at most NPC_SPAWN_ATTEMPTS and every placement
\* succeeds, the population is NPC_N again when cull() returns.
C24_CullPushesThenRefills ==
  (cls = "NPCManager" /\ entOp.op = "cull") =>
    LET n == Len(entOp.culledDead)
    IN /\ entOp.culledDead =
            SelectSeq(entOp.preEntities, LAMBDA id : id \in entOp.preNotAlive)
       /\ Len(entOp.preDangers) >= n
       /\ TopN(entOp.preDangers, n) = CulledDangers
       /\ \A i \in 1..Len(entOp.attempts) :
            /\ entOp.attempts[i].id \notin Range(entOp.preEntities)
            /\ n > 0 => entOp.attempts[i].danger = CulledDangers[n]
       /\ SubSeq(entities, 1, Len(entOp.culledEntities)) = entOp.culledEntities
       /\ (/\ Len(entOp.preEntities) = NPC_N
           /\ n <= NPC_SPAWN_ATTEMPTS
           /\ \A i \in 1..Len(entOp.attempts) : entOp.attempts[i].ok) =>
            Len(entities) = NPC_N

\* a cull of a full population in which two entities of different danger died
\* and the refill placed two
C24_Witness ==
  /\ cls = "NPCManager"
  /\ entOp.op = "cull"
  /\ Len(entOp.preEntities) = NPC_N
  /\ Len(entOp.culledDead) = 2
  /\ CulledDangers[1] # CulledDangers[2]
  /\ Len(entOp.attempts) = 2
  /\ \A i \in 1..Len(entOp.attempts) : entOp.attempts[i].ok
  /\ Len(entities) = NPC_N

\* the player slots spawn() does not skip
NotSkipped ==
  {i \in 1..PLAYER_N : ~InSeq(i, entOp.preEntities) /\ ~InSeq(i, entOp.preSpawned)}

\* C7: in one episode every player slot is spawned at most once: spawn() creates
\* exactly the slots that are neither live nor in spawned, one behavior each, and
\* a spawn() after the first of the episode creates nothing and consumes nothing.
C7_SlotSpawnedOncePerEpisode ==
  cls = "PlayerManager" =>
    /\ NoDup(spawn_order)
    /\ Range(spawn_order) \subseteq 1..PLAYER_N
    /\ entOp.op = "spawn" =>
         /\ Range(entities) \ Range(entOp.preEntities) = NotSkipped
         /\ agent_loader - entOp.preLoader = Cardinality(NotSkipped)
         /\ entOp.preSpawned # <<>> =>
              entities = entOp.preEntities /\ agent_loader = entOp.preLoader

\* a second spawn() of the episode, called after a player was culled
C7_Witness ==
  /\ cls = "PlayerManager"
  /\ entOp.op = "spawn"
  /\ entOp.preSpawned # <<>>
  /\ Len(entOp.preEntities) < PLAYER_N
  /\ entities = entOp.preEntities

\* C8: the first spawn() after reset leaves exactly PLAYER_N live entities, with
\* ids 1..PLAYER_N in ascending order, the k-th bound to the k-th behavior.
C8_FirstSpawn ==
  (cls = "PlayerManager" /\ entOp.op = "spawn" /\ entOp.preSpawned = <<>>) =>
    /\ entities = [k \in 1..PLAYER_N |-> k]
    /\ DOMAIN behavior = 1..PLAYER_N
    /\ \A k \in 1..PLAYER_N : behavior[k] = k

\* the first spawn() of an episode has returned
C8_Witness ==
  /\ cls = "PlayerManager"
  /\ entOp.op = "spawn"
  /\ entOp.preSpawned = <<>>
  /\ Len(entities) = PLAYER_N

\* C9: update() updates every entity of the live map once, no culled one, in the
\* order in which they were spawned, whatever spawns and culls came before.
C9_UpdateInSpawnOrder ==
  /\ entities = SelectSeq(spawn_order, LAMBDA id : InSeq(id, entities))
  /\ entOp.op = "update" =>
       /\ entOp.log = SelectSeq(spawn_order, LAMBDA id : InSeq(id, entities))
       /\ NoDup(entOp.log)
       /\ Range(entOp.log) = Range(entities)

\* an update of two survivors after an entity spawned before them was culled
C9_Witness ==
  /\ entOp.op = "update"
  /\ Len(entOp.log) >= 2
  /\ Len(spawn_order) > Len(entOp.log)
  /\ ~InSeq(spawn_order[1], entities)

----------------------------------------------------------------------------
(* Skills *)

SkillNames == {"food", "water", "fishing", "melee"}

RECURSIVE Pow2(_)
Pow2(n) == IF n = 0 THEN 1 ELSE 2 * Pow2(n - 1)

\* ExperienceCalculator.expAtLevel: the experience at which a level starts
ExpAtLevel(lvl) == IF lvl = 1 THEN 0 ELSE Pow2(lvl - 1)

\* ExperienceCalculator.levelAtExp: the level whose range holds the experience
LevelAtExp(e) == Cardinality({lvl \in 1..NumLevels : ExpAtLevel(lvl) <= e})

\* int(level)
ToInt(lvl) == lvl

NoSkillOp == [op |-> "none", skill |-> "food", arg |-> 0, preExp |-> 0, preLevel |-> 1]

\* Skill.__init__ and the level of a new skill: exp = 0, level 1
SkillInit ==
  /\ exp = [s \in SkillNames |-> 0]
  /\ level = [s \in SkillNames |-> 1]
  /\ created = {}
  /\ skillOp = NoSkillOp

AddXpLevel_Before(expBefore, expAfter) == ToInt(LevelAtExp(expBefore))

\* Skill.add_xp: the level is that of the experience after the gain
AddXpLevel(expBefore, expAfter) == ToInt(LevelAtExp(expAfter))

\* Skill.add_xp(xp)
AddXp(s, xp) ==
  LET after == exp[s] + xp * PROGRESSION_BASE_XP_SCALE
  IN /\ after <= MaxExp
     /\ exp' = [exp EXCEPT ![s] = after]
     /\ level' = [level EXCEPT ![s] = AddXpLevel(exp[s], after)]
     /\ created' = created \cup {s}
     /\ skillOp' = [op |-> "add_xp", skill |-> s, arg |-> xp, preExp |-> exp[s],
                    preLevel |-> level[s]]
     /\ UNCHANGED notSkillVars

\* Skill.setExpByLevel(level), the override used when the entity is created
SetExpByLevel(s, lvl) ==
  /\ s \notin created
  /\ exp' = [exp EXCEPT ![s] = ExpAtLevel(lvl)]
  /\ level' = [level EXCEPT ![s] = ToInt(lvl)]
  /\ created' = created \cup {s}
  /\ skillOp' = [op |-> "setExpByLevel", skill |-> s, arg |-> lvl, preExp |-> exp[s],
                 preLevel |-> level[s]]
  /\ UNCHANGED notSkillVars

SkillNext ==
  \/ \E s \in SkillNames, xp \in 0..MaxXp : AddXp(s, xp)
  \/ \E s \in SkillNames, lvl \in 1..NumLevels : SetExpByLevel(s, lvl)

----------------------------------------------------------------------------
(* C10: the skills *)

----------------------------------------------------------------------------
(* The live tables and the GameState *)

\* the live tables are observed at the ticks 1..NumTicks
NumTicks == 3
\* a query that would add an entry is not issued once cache_result holds
\* MaxCached entries
MaxCached == 3

EmptyDict == << >>

\* d[k] = v
Put(d, k, v) == [x \in (DOMAIN d) \cup {k} |-> IF x = k THEN v ELSE d[x]]

\* attribute name -> column of a row (the columns are numbered from 1)
EntityAttr == [id |-> 1, item_level |-> 2]
ItemAttr == [owner_id |-> 1, level |-> 2]
EventAttr == [ent_id |-> 1, event |-> 2]
TileAttr == [row |-> 1, col |-> 2]

\* the event codes
EventCode == [EAT_FOOD |-> 1, DRINK_WATER |-> 2]

\* names that are attributes of the class EventCode, as of every class, without
\* being event codes
ClassAttrs == {"__name__"}

\* hasattr(EventCode, attr)
HasAttrEventCode(attr) == attr \in (DOMAIN EventCode) \cup ClassAttrs

EntityIds == <<1, 2, -1>>

\* the live entity table at tick k: a row <<id, item_level>> per entity
EntityTable(k) ==
  [i \in 1..Len(EntityIds) |-> <<EntityIds[((i + k) % Len(EntityIds)) + 1], (i + k) % 2>>]

\* the live item table at tick k: a row <<owner_id, level>> per item
ItemTable(k) == [i \in 1..k |-> <<(i % 2) + 1, 3 + ((i * k) % 2)>>]

\* the live event table at tick k: a row <<ent_id, event>> per logged event
EventTable(k) == [i \in 1..(k + 1) |-> <<(i % 2) + 1, (((i \div 2) + k) % 2) + 1>>]

RealmAt(k) ==
  [tick |-> k, entity |-> EntityTable(k), item |-> ItemTable(k), event |-> EventTable(k)]

\* Observation.tiles of an agent: rows <<row, col>>
ObsTiles(agent) == << <<agent, 0>>, <<agent, 1>> >>

\* the subjects the consumers ask about: the agents of a Group, in order
Subjects == { <<1>>, <<2, 1>>, <<3, 2>> }

DataTypes == {"entity", "item", "event", "tile"}

\* the values a query returns or caches
NoValue == [kind |-> "none", name |-> "", val |-> << >>]
NdArray(rows) == [kind |-> "ndarray", name |-> "", val |-> rows]
ColumnOf(arr, col) == [kind |-> "column", name |-> "", val |-> [i \in 1..Len(arr) |-> arr[i][col]]]
ValueError == [kind |-> "ValueError", name |-> "data_type must be in entity, item, event", val |-> << >>]
AssertionError == [kind |-> "AssertionError", name |-> "Invalid event code", val |-> << >>]

\* the value is an exception raised, not a value returned
Raised(v) == v.kind \in {"ValueError", "AssertionError"}

\* the components of a cache key: a str, a tuple of ids, a Group (equal to
\* another Group when their agents are equal)
PyStr(s) == [type |-> "str", str |-> s, agents |-> << >>]
PyTuple(ids) == [type |-> "tuple", str |-> "", agents |-> ids]
PyGroup(agents) == [type |-> "Group", str |-> "", agents |-> agents]

NoGameState ==
  [current_tick |-> 0, alive_agents |-> {}, env_obs |-> EmptyDict,
   entity_data |-> << >>, entity_index |-> EmptyDict,
   item_data |-> << >>, item_index |-> EmptyDict,
   event_data |-> << >>, event_index |-> EmptyDict]

NoGsOp ==
  [op |-> "none", view |-> "", data_type |-> "", subject |-> << >>, attr |-> "",
   code |-> "", ret |-> NoValue, hit |-> FALSE, consulted |-> FALSE,
   stored |-> FALSE, repeat |-> FALSE,
   owner |-> [view |-> "", name |-> "", subject |-> << >>, attr |-> ""],
   preGs |-> NoGameState, preCache |-> EmptyDict]

\* GameStateGenerator.__init__: no GameState has been generated yet
GsInit ==
  /\ realm = RealmAt(1)
  /\ issued = FALSE
  /\ gs = NoGameState
  /\ cache_result = EmptyDict
  /\ first_ret = EmptyDict
  /\ cached_for = EmptyDict
  /\ gsOp = NoGsOp

IndexAdd_Last(index, id_, row) == Put(index, id_, <<row>>)

\* _precompute_index, the body of the loop: the row is appended to the rows of
\* its id, or starts them
IndexAdd(index, id_, row) ==
  IF id_ \in DOMAIN index THEN [index EXCEPT ![id_] = Append(@, row)]
  ELSE Put(index, id_, <<row>>)

RECURSIVE PrecomputeLoop(_, _, _, _)
\* _precompute_index, the loop over enumerate(table[:, id_col])
PrecomputeLoop(table, id_col, row, index) ==
  IF row > Len(table) THEN index
  ELSE PrecomputeLoop(table, id_col, row + 1, IndexAdd(index, table[row][id_col], row))

\* GameStateGenerator._precompute_index(table, id_col)
PrecomputeIndex(table, id_col) == PrecomputeLoop(table, id_col, 1, EmptyDict)

\* the id column generate() indexes a table by
IdColumn(data_type) ==
  CASE data_type = "entity" -> EntityAttr["id"]
    [] data_type = "item" -> ItemAttr["owner_id"]
    [] data_type = "event" -> EventAttr["ent_id"]

\* set(alive_agents[alive_agents > 0]) of the id column
AliveAgents_All(entity_all) ==
  {entity_all[i][EntityAttr["id"]] : i \in 1..Len(entity_all)}

\* alive_agents = set(alive_agents[alive_agents > 0]), of the id column
AliveAgents(entity_all) ==
  {id \in {entity_all[i][EntityAttr["id"]] : i \in 1..Len(entity_all)} : id > 0}

\* GameStateGenerator.generate: the GameState built from the tables of a realm
GameStateOf(r) ==
  LET entity_all == r.entity
      item_data == r.item
      event_data == r.event
      alive_agents == AliveAgents(entity_all)
  IN [current_tick |-> r.tick,
      alive_agents |-> alive_agents,
      env_obs |-> [a \in alive_agents |-> ObsTiles(a)],
      entity_data |-> entity_all,
      entity_index |-> PrecomputeIndex(entity_all, IdColumn("entity")),
      item_data |-> item_data,
      item_index |-> PrecomputeIndex(item_data, IdColumn("item")),
      event_data |-> event_data,
      event_index |-> PrecomputeIndex(event_data, IdColumn("event"))]

\* GameStateGenerator.generate(realm, env_obs)
Generate ==
     /\ gs' = GameStateOf(realm)
     /\ issued' = TRUE
     /\ cache_result' = EmptyDict
     /\ first_ret' = EmptyDict
     /\ cached_for' = EmptyDict
     /\ gsOp' = [NoGsOp EXCEPT !.op = "generate"]
     /\ UNCHANGED <<realm, notGsVars>>

\* the entity table of the datastore while the group holds `registered`: a row
\* <<id, item_level>> per entity that has a record (from its creation to the
\* delete() of cull or reset), after the row of an entity of the other group
GroupTable(class, registered) ==
  << <<IF class = "PlayerManager" THEN -1 ELSE 1, 0>> >> \o
  [i \in 1..Len(registered) |-> <<registered[i], 0>>]

\* generate(realm, env_obs) in the tick of the entity group: the entity table
\* is that of the entities registered now
GenerateOfGroup ==
  LET r == [realm EXCEPT !.entity = GroupTable(cls, entities)]
  IN /\ realm' = r
     /\ gs' = GameStateOf(r)
     /\ issued' = TRUE
     /\ cache_result' = EmptyDict
     /\ first_ret' = EmptyDict
     /\ cached_for' = EmptyDict
     /\ gsOp' = [NoGsOp EXCEPT !.op = "generate"]
     /\ entOp' = [NoEntOp EXCEPT !.op = "generate"]
     /\ UNCHANGED <<cls, npc_system_enabled, entities, dead_this_tick, not_alive, pos,
                    occupants, agent_loader, spawned, behavior, next_id, spawn_dangers,
                    spawn_order, mapVars, skillVars, pathVars, harvVars>>

\* the players of an episode, and the GameState generated from the entities
TickNext ==
  \/ Update
  \/ PlayerReset
  \/ PlayerSpawn
  \/ PlayerCull
  \/ GenerateOfGroup

SnapshotAfterWrite_Alias(copy, live) == live

\* the tables of the GameState are copies (.copy()): a write to the live table
\* leaves the array the GameState holds as it was
SnapshotAfterWrite(copy, live) == copy

\* the simulation runs on to tick k: the live tables change
LiveMutate(k) ==
  /\ k > realm.tick
  /\ realm' = RealmAt(k)
  /\ gs' = IF issued
           THEN [gs EXCEPT !.entity_data = SnapshotAfterWrite(@, EntityTable(k)),
                           !.item_data = SnapshotAfterWrite(@, ItemTable(k)),
                           !.event_data = SnapshotAfterWrite(@, EventTable(k))]
           ELSE gs
  /\ gsOp' = [NoGsOp EXCEPT !.op = "mutate", !.preGs = gs, !.preCache = cache_result]
  /\ UNCHANGED <<issued, cache_result, first_ret, cached_for, notGsVars>>

\* the table and the index where_in_id reads for a data_type
DataOf(g, data_type) ==
  CASE data_type = "entity" -> g.entity_data
    [] data_type = "item" -> g.item_data
    [] data_type = "event" -> g.event_data
    [] OTHER -> << >>

IndexOf(g, data_type) ==
  CASE data_type = "entity" -> g.entity_index
    [] data_type = "item" -> g.item_index
    [] data_type = "event" -> g.event_index
    [] OTHER -> EmptyDict

KnownTables_Any == DataTypes

\* the data_type values where_in_id serves
KnownTables == {"entity", "item", "event"}

WhereKey_TableOnly(data_type, subject) == <<PyStr(data_type), PyTuple(<< >>)>>

\* where_in_id: k = (data_type, subject)
WhereKey(data_type, subject) == <<PyStr(data_type), PyTuple(subject)>>

\* index.get(sbj, [])
IndexGet(index, sbj) == IF sbj \in DOMAIN index THEN index[sbj] ELSE << >>

RECURSIVE FltIdx(_, _)
\* [row for sbj in subject for row in index.get(sbj, [])]
FltIdx(subject, index) ==
  IF subject = << >> THEN << >>
  ELSE IndexGet(index, Head(subject)) \o FltIdx(Tail(subject), index)

\* data[flt_idx]
TakeRows(data, flt_idx) == [i \in 1..Len(flt_idx) |-> data[flt_idx[i]]]

\* GameState.where_in_id(data_type, subject): the cache afterwards, the value
\* returned (or the error raised), whether the cache served it and whether the
\* index was consulted
WhereInId(g, cache, data_type, subject) ==
  LET k == WhereKey(data_type, subject)
  IN IF k \in DOMAIN cache
     THEN [cache |-> cache, ret |-> cache[k], hit |-> TRUE, consulted |-> FALSE]
     ELSE IF data_type \in KnownTables
     THEN LET flt_idx == FltIdx(subject, IndexOf(g, data_type))
              v == NdArray(TakeRows(DataOf(g, data_type), flt_idx))
          IN [cache |-> Put(cache, k, v), ret |-> v, hit |-> FALSE, consulted |-> TRUE]
     ELSE [cache |-> cache, ret |-> ValueError, hit |-> FALSE, consulted |-> FALSE]

\* the history of the first results after a where_in_id call
FirstRet(first, data_type, subject, w) ==
  IF w.ret = ValueError \/ <<data_type, subject>> \in DOMAIN first THEN first
  ELSE Put(first, <<data_type, subject>>, w.ret)

\* a consumer calls gs.where_in_id(data_type, subject)
WhereInIdCall(data_type, subject) ==
  LET w == WhereInId(gs, cache_result, data_type, subject)
  IN /\ issued
     /\ w.cache # cache_result => Cardinality(DOMAIN cache_result) < MaxCached
     /\ cache_result' = w.cache
     /\ first_ret' = FirstRet(first_ret, data_type, subject, w)
     /\ gsOp' = [NoGsOp EXCEPT !.op = "where_in_id", !.data_type = data_type,
                               !.subject = subject, !.ret = w.ret, !.hit = w.hit,
                               !.consulted = w.consulted,
                               !.stored = (w.cache # cache_result),
                               !.repeat = (<<data_type, subject>> \in DOMAIN first_ret)]
     /\ UNCHANGED <<realm, issued, gs, cached_for, notGsVars>>

SnapshotNext ==
  \/ Generate
  \/ \E k \in 1..NumTicks : LiveMutate(k)
  \/ \E data_type \in DataTypes, subject \in Subjects : WhereInIdCall(data_type, subject)

----------------------------------------------------------------------------
(* The views of a GameState *)

\* a query in progress: the cache and the histories so far, the value returned,
\* whether the cache served it and, if so, the access that had stored the entry
NoAccess == [view |-> "", name |-> "", subject |-> << >>, attr |-> ""]

SessionOf(cache, first, for) ==
  [cache |-> cache, first |-> first, for |-> for, ret |-> NoValue, hit |-> FALSE,
   owner |-> NoAccess]

Session == SessionOf(cache_result, first_ret, cached_for)

EventCodeViewOf(name, arr) == [kind |-> "EventCodeView", name |-> name, val |-> arr]
ListOf(columns) == [kind |-> "list", name |-> "", val |-> columns]
ScalarOf(x) == [kind |-> "scalar", name |-> "", val |-> x]

\* GroupView._sbj_ent, _sbj_item, _sbj_event:
\* self._gs.where_in_id(data_type, self._subject.agents)
SbjRows(g, c, data_type, subject) ==
  LET w == WhereInId(g, c.cache, data_type, subject)
  IN [c EXCEPT !.cache = w.cache, !.first = FirstRet(c.first, data_type, subject, w),
               !.ret = w.ret, !.hit = w.hit]

ViewKey_Tagged(subject, name, attr) == <<PyGroup(subject), PyStr(name \o "." \o attr)>>

\* ArrayView.__getattr__: k = (self._subject, self._name+'_'+attr)
ViewKey(subject, name, attr) == <<PyGroup(subject), PyStr(name \o "_" \o attr)>>

\* GroupView.__getattribute__: k = (self._subject, attr)
GroupKey(subject, attr) == <<PyGroup(subject), PyStr(attr)>>

\* ArrayView.__getattr__(attr) on the view `view` named `name` of `subject`,
\* v being what get_attribute(attr) returns
ArrayViewGetattr(c, view, subject, name, attr, v) ==
  LET k == ViewKey(subject, name, attr)
      access == [view |-> view, name |-> name, subject |-> subject, attr |-> attr]
  IN IF k \in DOMAIN c.cache
     THEN [c EXCEPT !.ret = c.cache[k], !.hit = TRUE, !.owner = c.for[k]]
     ELSE IF Raised(v)
     THEN [c EXCEPT !.ret = v, !.hit = FALSE, !.owner = NoAccess]
     ELSE [c EXCEPT !.cache = Put(@, k, v), !.for = Put(@, k, access),
                    !.ret = v, !.hit = FALSE, !.owner = NoAccess]

\* gs.get_subject_view(subject).entity.<attr>
EntityViewGet(g, c, subject, attr) ==
  LET c1 == SbjRows(g, c, "entity", subject)
  IN ArrayViewGetattr(c1, "EntityView", subject, "entity", attr,
                      ColumnOf(c1.ret.val, EntityAttr[attr]))

\* gs.get_subject_view(subject).item.<attr>
ItemViewGet(g, c, subject, attr) ==
  LET c1 == SbjRows(g, c, "item", subject)
  IN ArrayViewGetattr(c1, "ItemView", subject, "item", attr,
                      ColumnOf(c1.ret.val, ItemAttr[attr]))

\* GroupView._sbj_event, read by the event property as self._sbj_event: the
\* name is not in the pass-through list of __getattribute__, so the rows are
\* looked up and stored under (self._subject, '_sbj_event')
SbjEvent(g, c, subject) ==
  LET k == GroupKey(subject, "_sbj_event")
      access == [view |-> "GroupView", name |-> "", subject |-> subject,
                 attr |-> "_sbj_event"]
  IN IF k \in DOMAIN c.cache
     THEN [c EXCEPT !.ret = c.cache[k]]
     ELSE LET c1 == SbjRows(g, c, "event", subject)
          IN [c1 EXCEPT !.cache = Put(@, k, c1.ret), !.for = Put(@, k, access)]

In1d_All(arr, attr) == arr

\* self._arr[np.in1d(self._arr[:, EventAttr['event']], getattr(EventCode, attr))]:
\* the rows of the code, in their order; an attribute that is no number is
\* the event of no row
In1d(arr, attr) ==
  IF attr \in DOMAIN EventCode
  THEN SelectSeq(arr, LAMBDA row : row[EventAttr["event"]] = EventCode[attr])
  ELSE << >>

\* EventView.get_attribute(code)
EventViewGetAttribute(arr, code) ==
  IF ~HasAttrEventCode(code) THEN AssertionError
  ELSE EventCodeViewOf(code, In1d(arr, code))

\* gs.get_subject_view(subject).event.<code>: the rows of the code, as an
\* EventCodeView
EventViewGet(g, c, subject, code) ==
  LET c1 == SbjEvent(g, c, subject)
  IN ArrayViewGetattr(c1, "EventView", subject, "event", code,
                      EventViewGetAttribute(c1.ret.val, code))

\* gs.get_subject_view(subject).event.<code>.<attr>
EventCodeViewGet(g, c, subject, code, attr) ==
  LET c1 == EventViewGet(g, c, subject, code)
  IN IF Raised(c1.ret) THEN c1
     ELSE ArrayViewGetattr(c1, "EventCodeView", subject, c1.ret.name, attr,
                           ColumnOf(c1.ret.val, EventAttr[attr]))

\* gs.get_subject_view(subject).obs.tile.<attr>: a column per agent of the
\* subject that has an observation
TileViewGet(g, c, subject, attr) ==
  LET valid_agents == SelectSeq(subject, LAMBDA eid : eid \in DOMAIN g.env_obs)
      arr == [i \in 1..Len(valid_agents) |-> g.env_obs[valid_agents[i]]]
      v == ListOf([i \in 1..Len(arr) |-> ColumnOf(arr[i], TileAttr[attr]).val])
  IN ArrayViewGetattr(c, "TileView", subject, "tile", attr, v)

\* GroupView.__getattribute__(attr), for an attr that is not passed through: an
\* entity attribute is read through self.entity and cached under k; any other
\* name here is no attribute of the view and is read from the GameState
GroupViewGet(g, c, subject, attr) ==
  LET k == GroupKey(subject, attr)
      access == [view |-> "GroupView", name |-> "", subject |-> subject, attr |-> attr]
  IN IF k \in DOMAIN c.cache
     THEN [c EXCEPT !.ret = c.cache[k], !.hit = TRUE, !.owner = c.for[k]]
     ELSE IF attr \in DOMAIN EntityAttr
     THEN LET c1 == EntityViewGet(g, c, subject, attr)
          IN [c1 EXCEPT !.cache = Put(@, k, c1.ret), !.for = Put(@, k, access),
                        !.hit = FALSE, !.owner = NoAccess]
     ELSE [c EXCEPT !.ret = ScalarOf(g[attr]), !.hit = FALSE, !.owner = NoAccess]

\* the query of a consumer, by the view it goes through
Answer(g, c, view, subject, attr, code) ==
  CASE view = "GroupView" -> GroupViewGet(g, c, subject, attr)
    [] view = "EntityView" -> EntityViewGet(g, c, subject, attr)
    [] view = "ItemView" -> ItemViewGet(g, c, subject, attr)
    [] view = "EventView" -> EventViewGet(g, c, subject, code)
    [] view = "EventCodeView" -> EventCodeViewGet(g, c, subject, code, attr)
    [] view = "TileView" -> TileViewGet(g, c, subject, attr)

\* a consumer reads a field through a view of the last GameState
ViewAccess(view, subject, attr, code) ==
  LET c == Answer(gs, Session, view, subject, attr, code)
  IN /\ issued
     /\ c.cache # cache_result => Cardinality(DOMAIN cache_result) < MaxCached
     /\ cache_result' = c.cache
     /\ first_ret' = c.first
     /\ cached_for' = c.for
     /\ gsOp' = [NoGsOp EXCEPT !.op = "view", !.view = view, !.subject = subject,
                               !.attr = attr, !.code = code, !.ret = c.ret,
                               !.hit = c.hit, !.stored = (c.cache # cache_result),
                               !.owner = c.owner]
     /\ UNCHANGED <<realm, issued, gs, notGsVars>>

\* the subjects and the fields the consumers read
ViewSubjects == { <<1>>, <<2, 1>> }
GroupFields == {"item_level", "current_tick"}
EntityFields == {"id", "item_level"}
ItemFields == {"owner_id", "level"}
EventCodes == {"EAT_FOOD", "DRINK_WATER", "NOT_A_CODE", "__name__"}
EventFields == {"ent_id"}
TileFields == {"row"}

GroupViewAccess == \E s \in ViewSubjects, a \in GroupFields : ViewAccess("GroupView", s, a, "")
EntityViewAccess == \E s \in ViewSubjects, a \in EntityFields : ViewAccess("EntityView", s, a, "")
ItemViewAccess == \E s \in ViewSubjects, a \in ItemFields : ViewAccess("ItemView", s, a, "")
EventViewAccess == \E s \in ViewSubjects, code \in EventCodes : ViewAccess("EventView", s, code, code)
EventCodeViewAccess ==
  \E s \in ViewSubjects, code \in EventCodes, a \in EventFields :
    ViewAccess("EventCodeView", s, a, code)
TileViewAccess == \E s \in ViewSubjects, a \in TileFields : ViewAccess("TileView", s, a, "")

\* the event views of a GameState, next to direct where_in_id calls
EventNext ==
  \/ Generate
  \/ \E data_type \in DataTypes, subject \in ViewSubjects : WhereInIdCall(data_type, subject)
  \/ EventViewAccess
  \/ EventCodeViewAccess

ViewNext ==
  \/ Generate
  \/ \E data_type \in DataTypes, subject \in ViewSubjects : WhereInIdCall(data_type, subject)
  \/ GroupViewAccess
  \/ EntityViewAccess
  \/ ItemViewAccess
  \/ EventViewAccess
  \/ EventCodeViewAccess
  \/ TileViewAccess

----------------------------------------------------------------------------
(* C11..C16: the GameState and its views *)

\* the rows of a table whose id column holds the id, in ascending row order
RowsOfId(table, id_col, id) == SelectSeq(table, LAMBDA row : row[id_col] = id)

RECURSIVE ConcatRows(_, _, _)
ConcatRows(table, id_col, subject) ==
  IF subject = << >> THEN << >>
  ELSE RowsOfId(table, id_col, Head(subject)) \o ConcatRows(table, id_col, Tail(subject))

\* C13: where_in_id(table, subject_ids) returns the concatenation, in the order
\* of the subject ids, of the rows of the table whose id column (entity id, item
\* owner_id, event ent_id) equals the id, each id's rows in ascending row order.
C13_WhereInIdConcatenates ==
  (gsOp.op = "where_in_id" /\ gsOp.data_type \in {"entity", "item", "event"}) =>
    LET table == CASE gsOp.data_type = "entity" -> gs.entity_data
                   [] gsOp.data_type = "item" -> gs.item_data
                   [] gsOp.data_type = "event" -> gs.event_data
        id_col == CASE gsOp.data_type = "entity" -> EntityAttr["id"]
                    [] gsOp.data_type = "item" -> ItemAttr["owner_id"]
                    [] gsOp.data_type = "event" -> EventAttr["ent_id"]
    IN gsOp.ret = NdArray(ConcatRows(table, id_col, gsOp.subject))

\* where_in_id has returned, for a subject of two ids given out of row order, an
\* id with two rows followed by the row of the other id
C13_Witness ==
  /\ gsOp.op = "where_in_id"
  /\ gsOp.data_type = "event"
  /\ gsOp.subject = <<2, 1>>
  /\ Len(gsOp.ret.val) >= 3
  /\ gsOp.ret.val[1][1] = 2
  /\ gsOp.ret.val[2][1] = 2
  /\ gsOp.ret.val[Len(gsOp.ret.val)][1] = 1
  /\ gsOp.ret.val # gs.event_data

\* C14: a where_in_id call with a (table, subject) pair already asked on this
\* GameState returns what the first call returned, from cache_result and without
\* consulting the index or storing anything; a pair asked for the first time is
\* not served from the cache, and different pairs have different cache keys.
C14_WhereInIdMemoized ==
  /\ (gsOp.op = "where_in_id" /\ gsOp.data_type \in {"entity", "item", "event"}) =>
       /\ gsOp.ret = first_ret[<<gsOp.data_type, gsOp.subject>>]
       /\ gsOp.repeat => (gsOp.hit /\ ~gsOp.consulted /\ ~gsOp.stored)
       /\ ~gsOp.repeat => ~gsOp.hit
  /\ \A p, q \in DOMAIN first_ret :
       p # q => WhereKey(p[1], p[2]) # WhereKey(q[1], q[2])

\* a pair has been asked a second time while the cache holds another pair of
\* the same table
C14_Witness ==
  /\ gsOp.op = "where_in_id"
  /\ gsOp.repeat
  /\ gsOp.hit
  /\ \E p \in DOMAIN first_ret :
       /\ p[1] = gsOp.data_type
       /\ p[2] # gsOp.subject
       /\ first_ret[p] # gsOp.ret

\* C15: where_in_id with a table name outside {entity, item, event} raises the
\* invalid-table error on every such call and leaves cache_result unchanged.
C15_InvalidTableRaises ==
  (gsOp.op = "where_in_id" /\ gsOp.data_type \notin {"entity", "item", "event"}) =>
    /\ gsOp.ret = ValueError
    /\ ~gsOp.hit
    /\ ~gsOp.stored
    /\ \A subject \in Subjects : WhereKey(gsOp.data_type, subject) \notin DOMAIN cache_result

\* where_in_id has raised for an unknown table on a GameState whose cache holds
\* an entry for the same subject
C15_Witness ==
  /\ gsOp.op = "where_in_id"
  /\ gsOp.data_type = "tile"
  /\ gsOp.ret = ValueError
  /\ \E data_type \in KnownTables : WhereKey(data_type, gsOp.subject) \in DOMAIN cache_result

\* C11: a write to the live entity, item or event table after generate() leaves
\* the GameState's tables, indices and alive_agents, and the result of every
\* where_in_id and view query on it, as they were.
C11_SnapshotUnaffectedByLiveWrites ==
  (issued /\ gsOp.op = "mutate") =>
    LET before == SessionOf(gsOp.preCache, first_ret, cached_for)
    IN /\ gs.entity_data = gsOp.preGs.entity_data
       /\ gs.item_data = gsOp.preGs.item_data
       /\ gs.event_data = gsOp.preGs.event_data
       /\ gs.entity_index = gsOp.preGs.entity_index
       /\ gs.item_index = gsOp.preGs.item_index
       /\ gs.event_index = gsOp.preGs.event_index
       /\ gs.alive_agents = gsOp.preGs.alive_agents
       /\ \A data_type \in KnownTables, s \in Subjects :
            WhereInId(gs, cache_result, data_type, s).ret
              = WhereInId(gsOp.preGs, gsOp.preCache, data_type, s).ret
       /\ \A s \in Subjects :
            /\ \A a \in GroupFields :
                 Answer(gs, Session, "GroupView", s, a, "").ret
                   = Answer(gsOp.preGs, before, "GroupView", s, a, "").ret
            /\ \A a \in EntityFields :
                 Answer(gs, Session, "EntityView", s, a, "").ret
                   = Answer(gsOp.preGs, before, "EntityView", s, a, "").ret
            /\ \A a \in ItemFields :
                 Answer(gs, Session, "ItemView", s, a, "").ret
                   = Answer(gsOp.preGs, before, "ItemView", s, a, "").ret
            /\ \A a \in TileFields :
                 Answer(gs, Session, "TileView", s, a, "").ret
                   = Answer(gsOp.preGs, before, "TileView", s, a, "").ret
            /\ \A code \in EventCodes, a \in EventFields :
                 Answer(gs, Session, "EventCodeView", s, a, code).ret
                   = Answer(gsOp.preGs, before, "EventCodeView", s, a, code).ret

\* the live tables have been written after generate(): all three differ from
\* the tables of the GameState, whose cache holds the result of a query
C11_Witness ==
  /\ issued
  /\ gsOp.op = "mutate"
  /\ gs.entity_data # realm.entity
  /\ gs.item_data # realm.item
  /\ gs.event_data # realm.event
  /\ cache_result # EmptyDict
  /\ gs.entity_index = PrecomputeIndex(gs.entity_data, EntityAttr["id"])

\* C12: whatever queries the consumers of a GameState have issued before, a
\* where_in_id call or a view field access returns what it would return as the
\* only query on a fresh copy of the GameState.
C12_QueriesIndependent ==
  /\ gsOp.op = "where_in_id" =>
       gsOp.ret = WhereInId(gs, EmptyDict, gsOp.data_type, gsOp.subject).ret
  /\ gsOp.op = "view" =>
       gsOp.ret = Answer(gs, SessionOf(EmptyDict, EmptyDict, EmptyDict), gsOp.view,
                         gsOp.subject, gsOp.attr, gsOp.code).ret

\* C16: a view field access served from cache_result gets an entry that an
\* access with the same subject, view and field stored: accesses that differ in
\* subject, view or field never have the same cache key.
C16_ViewKeysIdentifyAccess ==
  (gsOp.op = "view" /\ gsOp.hit) =>
    /\ gsOp.owner.view = gsOp.view
    /\ gsOp.owner.subject = gsOp.subject
    /\ gsOp.owner.attr = gsOp.attr
    /\ gsOp.view = "EventCodeView" => gsOp.owner.name = gsOp.code

\* the ids in the id column of an entity table
IdsOf(table) == {table[i][EntityAttr["id"]] : i \in 1..Len(table)}

\* C26: alive_agents of a GameState is the set of the positive values of the id
\* column of its copy of the entity table: no id of an NPC, no id without a
\* row; in a GameState generated after cull it holds no culled player (and
\* every player still registered).
C26_AliveAgents ==
  issued =>
    /\ gs.alive_agents = {id \in IdsOf(gs.entity_data) : id > 0}
    /\ \A id \in gs.alive_agents : id > 0 /\ id \in IdsOf(gs.entity_data)
    /\ entOp.op = "generate" =>
         /\ gs.alive_agents \cap Range(dead_this_tick) = {}
         /\ cls = "PlayerManager" => gs.alive_agents = Range(entities)
         /\ cls = "NPCManager" => gs.alive_agents = {1} \ Range(entities)

\* a GameState generated after a cull that removed a player and left another,
\* from a table that has the row of an NPC
C26_Witness ==
  /\ issued
  /\ entOp.op = "generate"
  /\ cls = "PlayerManager"
  /\ \E id \in Range(dead_this_tick) : id > 0
  /\ gs.alive_agents # {}
  /\ \E id \in IdsOf(gs.entity_data) : id < 0

\* the event rows of the subject, in the order where_in_id gives them
SubjectEvents(subject) == ConcatRows(gs.event_data, EventAttr["ent_id"], subject)

\* the rows among them whose event column is the code
RowsOfCode(rows, code) ==
  SelectSeq(rows, LAMBDA row : code \in DOMAIN EventCode
                               /\ row[EventAttr["event"]] = EventCode[code])

----------------------------------------------------------------------------
(* The pathfinding cache of the map *)

\* the (start, goal) pairs the search is asked for
PathPairs ==
  { <<s, g>> \in PlayArea \X PlayArea : s[1] # g[1] /\ s[2] # g[2] }

\* the search collaborator on the current terrain: the route turns at the
\* corner it can walk on
SearchPath(start, goal) ==
  LET corner == <<start[1], goal[2]>>
  IN IF material[corner] # "Water" THEN <<start, corner, goal>>
     ELSE <<start, <<goal[1], start[2]>>, goal>>

NoPathOp == [op |-> "none", key |-> << >>, ret |-> << >>, hit |-> FALSE]

\* Map.__init__: self.pathfinding_cache = {}
PathInit ==
  /\ pathfinding_cache = EmptyDict
  /\ pathOp = NoPathOp

\* a search through the cache: a cached path is returned as it is, a new one is
\* computed on the current terrain and stored under (start, goal)
PathSearch(start, goal) ==
  LET k == <<start, goal>>
      hit == k \in DOMAIN pathfinding_cache
      path == IF hit THEN pathfinding_cache[k] ELSE SearchPath(start, goal)
  IN /\ map_loaded
     /\ pathfinding_cache' = IF hit THEN pathfinding_cache ELSE Put(pathfinding_cache, k, path)
     /\ pathOp' = [op |-> "search", key |-> k, ret |-> path, hit |-> hit]
     /\ UNCHANGED notPathVars

\* the map is reloaded and searched
PathNext ==
  \/ \E md \in MapDicts : MapReset(md)
  \/ \E k \in PathPairs : PathSearch(k[1], k[2])

----------------------------------------------------------------------------
(* C17: the pathfinding cache *)

\* C17: when Map.reset returns the pathfinding cache is empty, so no path
\* cached for an earlier map is returned for the reloaded one; between resets
\* no entry is removed.
C17_ResetEmptiesPathfindingCache ==
  /\ mapOp.op = "reset" => pathfinding_cache = EmptyDict
  /\ pathOp.op = "search" => pathOp.ret = SearchPath(pathOp.key[1], pathOp.key[2])

----------------------------------------------------------------------------
(* C18: two runs side by side *)

\* the attempts of a spawn() call in which NPC.spawn yielded an npc
Placed(attempts) == [i \in 1..Len(attempts) |-> attempts[i].ok]

\* C18: two runs that have been reset alike and are fed the same inputs
\* (NPC.spawn accepts the same attempts in both) come out of the next
\* NPCManager.spawn with the same ids registered in the same order at the same
\* positions, so that their entity tables and snapshots agree.
C18_SameSeedSameRun ==
  (cls = "NPCManager" /\ entOp.op = "reset") =>
    \A run1, run2 \in NPCSpawnOp(GroupState, spawn_dangers) :
      Placed(run1.attempts) = Placed(run2.attempts) =>
        /\ run1.st.entities = run2.st.entities
        /\ run1.st.spawn_order = run2.st.spawn_order
        /\ run1.st.pos = run2.st.pos
        /\ run1.st.occupants = run2.st.occupants

----------------------------------------------------------------------------
(* The harvest skills of one entity *)

\* config.RESOURCE_BASE: the capacity of a resource pool
RESOURCE_BASE == 2
\* config.RESOURCE_DEPLETION_RATE
RESOURCE_DEPLETION_RATE == 1
\* config.RESOURCE_HARVEST_RESTORE_FRACTION = RESTORE_NUM / RESTORE_DEN
RESTORE_NUM == 1
RESTORE_DEN == 2
\* config.PROGRESSION_HARVEST_XP_SCALE
PROGRESSION_HARVEST_XP_SCALE == 2
\* the number of items the inventory has space for
INVENTORY_CAPACITY == 1

\* entity.resources.<pool>.decrement(amt) and increment(amt): the pool is a
\* bounded level, it stays within 0..RESOURCE_BASE
Decrement(val, amt) == IF val - amt < 0 THEN 0 ELSE val - amt

Increment(val, amt) == IF val + amt > RESOURCE_BASE THEN RESOURCE_BASE ELSE val + amt

\* np.floor(config.RESOURCE_BASE * config.RESOURCE_HARVEST_RESTORE_FRACTION)
Restore == (RESOURCE_BASE * RESTORE_NUM) \div RESTORE_DEN

\* dropTable.roll(realm, level): the drops of a loot table
Roll(dropTable) == dropTable

RECURSIVE Deposit(_, _)
\* processDrops, the loop: a drop is received if the inventory has space
Deposit(inv, drops) ==
  IF drops = << >> THEN inv
  ELSE Deposit(IF Len(inv) < INVENTORY_CAPACITY THEN Append(inv, Head(drops)) ELSE inv,
               Tail(drops))

GrantsXp_All(skill) == TRUE

\* processDrops: type(self) != Food and type(self) != Water
GrantsXp(skill) == skill # "food" /\ skill # "water"

NoHarvOp ==
  [op |-> "none", enabled |-> TRUE, pos |-> <<0, 0>>, matching |-> << >>,
   calls |-> << >>, lootFrom |-> None, dropTable |-> None, success |-> FALSE,
   preFood |-> 0, preWater |-> 0, preInventory |-> << >>, xp |-> 0, preExp |-> 0]

\* a new entity: full pools, an empty inventory
HarvInit ==
  /\ ent_pos = <<MAP_BORDER, MAP_BORDER>>
  /\ food = RESOURCE_BASE
  /\ water = RESOURCE_BASE
  /\ inventory = << >>
  /\ harvOp = NoHarvOp

\* the map as a skill update sees and changes it
MapState ==
  [ul |-> update_list, dep |-> depleted, cd |-> countdown, rg |-> regrowing, op |-> mapOp]

\* realm.map.tiles[r, c].state
StateOn(m, t) == TileStateOf(m.dep[t], material[t])

\* realm.map.harvest(r, c, deplete) during a skill update: the map afterwards
\* and the value returned
HarvestOn(m, t, deplete) ==
  LET harvestable == StateOn(m, t) \in Harvestable
      dep == deplete /\ harvestable
      ret == IF harvestable THEN LootTable(material[t]) ELSE None
  IN [m |-> [ul |-> HarvestRegister(m.ul, t, deplete),
             dep |-> [m.dep EXCEPT ![t] = @ \/ dep],
             cd |-> [m.cd EXCEPT ![t] = IF dep THEN REGEN_TICKS ELSE @],
             rg |-> IF dep THEN m.rg \cup {t} ELSE m.rg,
             op |-> [NoMapOp EXCEPT !.op = "harvest", !.tile = t, !.deplete = deplete,
                                    !.ret = ret, !.preState = StateOn(m, t),
                                    !.preRegrowing = (t \in m.rg), !.preList = m.ul]],
      ret |-> ret]

\* a harvest in progress: the map, the last loot table assigned, the tile it
\* came from and the tiles Map.harvest was called on
HarvestStart(m) == [m |-> m, dropTable |-> None, lootFrom |-> None, calls |-> << >>]

\* HarvestSkill.harvest: the entity's own tile, if its state is the material
HarvestOwn(m, p, matl, deplete) ==
  IF StateOn(m, p) # matl THEN HarvestStart(m)
  ELSE LET r == HarvestOn(m, p, deplete)
       IN [m |-> r.m, dropTable |-> r.ret, lootFrom |-> p, calls |-> <<p>>]

\* (r-1, c), (r+1, c), (r, c-1), (r, c+1)
Neighbours(p) ==
  << <<p[1] - 1, p[2]>>, <<p[1] + 1, p[2]>>, <<p[1], p[2] - 1>>, <<p[1], p[2] + 1>> >>

\* HarvestSkill.harvestAdjacent, one of its four `if` statements: a neighbour
\* whose state is the material is harvested and its loot table assigned
AdjacentIf(h, t, matl, deplete) ==
  IF StateOn(h.m, t) = matl
  THEN LET r == HarvestOn(h.m, t, deplete)
       IN [m |-> r.m, dropTable |-> r.ret, lootFrom |-> t, calls |-> Append(h.calls, t)]
  ELSE h

\* HarvestSkill.harvestAdjacent: the four `if` statements in turn
HarvestAdjacent(m, p, matl, deplete) ==
  LET n == Neighbours(p)
      up == AdjacentIf(HarvestStart(m), n[1], matl, deplete)
      down == AdjacentIf(up, n[2], matl, deplete)
      left == AdjacentIf(down, n[3], matl, deplete)
  IN AdjacentIf(left, n[4], matl, deplete)

\* the tiles among ts whose state is the material, in order
Matching(ts, matl) == SelectSeq(ts, LAMBDA t : TileState(t) = matl)

\* a skill update that harvested with outcome h: the map, the inventory and the
\* experience afterwards (processDrops if a loot table came back)
Harvested(skill, h, matching) ==
  LET success == h.dropTable # None
      xp == IF success /\ GrantsXp(skill) THEN PROGRESSION_HARVEST_XP_SCALE ELSE 0
      after == exp[skill] + xp * PROGRESSION_BASE_XP_SCALE
  IN /\ (success /\ GrantsXp(skill)) => after <= MaxExp
     /\ update_list' = h.m.ul
     /\ depleted' = h.m.dep
     /\ countdown' = h.m.cd
     /\ regrowing' = h.m.rg
     /\ mapOp' = h.m.op
     /\ inventory' = IF success THEN Deposit(inventory, Roll(h.dropTable)) ELSE inventory
     /\ IF success /\ GrantsXp(skill)
        THEN /\ exp' = [exp EXCEPT ![skill] = after]
             /\ level' = [level EXCEPT ![skill] = AddXpLevel(exp[skill], after)]
             /\ created' = created \cup {skill}
             /\ skillOp' = [op |-> "add_xp", skill |-> skill, arg |-> xp,
                            preExp |-> exp[skill], preLevel |-> level[skill]]
        ELSE UNCHANGED skillVars
     /\ harvOp' = [NoHarvOp EXCEPT !.op = skill, !.pos = ent_pos, !.matching = matching,
                                   !.calls = h.calls, !.lootFrom = h.lootFrom,
                                   !.dropTable = h.dropTable, !.success = success,
                                   !.preFood = food, !.preWater = water,
                                   !.preInventory = inventory, !.xp = xp,
                                   !.preExp = exp[skill]]

\* a skill update that returned at once: the resource system is disabled
Skipped(skill) ==
  /\ harvOp' = [NoHarvOp EXCEPT !.op = skill, !.enabled = FALSE, !.pos = ent_pos,
                                !.preFood = food, !.preWater = water,
                                !.preInventory = inventory]
  /\ UNCHANGED <<mapVars, skillVars, ent_pos, food, water, inventory>>

SurvivalPool_RestoreFirst(pool, success) ==
  IF success THEN Decrement(Increment(pool, Restore), RESOURCE_DEPLETION_RATE)
  ELSE Decrement(pool, RESOURCE_DEPLETION_RATE)

\* Food.update and Water.update: the pool is decremented, and then, if the
\* harvest succeeded, incremented by the restore amount
SurvivalPool(pool, success) ==
  IF success THEN Increment(Decrement(pool, RESOURCE_DEPLETION_RATE), Restore)
  ELSE Decrement(pool, RESOURCE_DEPLETION_RATE)

\* Water.update(realm, entity), config.RESOURCE_SYSTEM_ENABLED being `enabled`
WaterUpdate(enabled) ==
  LET h == HarvestAdjacent(MapState, ent_pos, "Water", FALSE)
  IN /\ map_loaded
     /\ IF ~enabled THEN Skipped("water")
        ELSE /\ Harvested("water", h, Matching(Neighbours(ent_pos), "Water"))
             /\ water' = SurvivalPool(water, h.dropTable # None)
             /\ UNCHANGED <<map_loaded, material, ent_pos, food>>
     /\ UNCHANGED notHarvVars

\* Food.update(realm, entity), config.RESOURCE_SYSTEM_ENABLED being `enabled`
FoodUpdate(enabled) ==
  LET h == HarvestOwn(MapState, ent_pos, "Forest", TRUE)
  IN /\ map_loaded
     /\ IF ~enabled THEN Skipped("food")
        ELSE /\ Harvested("food", h, Matching(<<ent_pos>>, "Forest"))
             /\ food' = SurvivalPool(food, h.dropTable # None)
             /\ UNCHANGED <<map_loaded, material, ent_pos, water>>
     /\ UNCHANGED notHarvVars

\* Fishing.update(realm, entity)
FishingUpdate ==
  LET h == HarvestAdjacent(MapState, ent_pos, "Fish", TRUE)
  IN /\ map_loaded
     /\ Harvested("fishing", h, Matching(Neighbours(ent_pos), "Fish"))
     /\ UNCHANGED <<map_loaded, material, ent_pos, food, water>>
     /\ UNCHANGED notHarvVars

\* the entity moves to another tile of the play area
Relocate(p) ==
  /\ p # ent_pos
  /\ ent_pos' = p
  /\ harvOp' = [NoHarvOp EXCEPT !.op = "move", !.pos = p]
  /\ UNCHANGED <<food, water, inventory, mapVars, skillVars, notHarvVars>>

\* the fishing of one entity on a map that is reloaded
FishingNext ==
  \/ \E md \in MapDicts : MapReset(md)
  \/ \E p \in PlayArea : Relocate(p)
  \/ FishingUpdate

\* the harvest skills of one entity on the first map
HarvestNext ==
  \/ MapReset(1)
  \/ \E p \in PlayArea : Relocate(p)
  \/ FishingUpdate
  \/ \E enabled \in BOOLEAN : FoodUpdate(enabled)
  \/ \E enabled \in BOOLEAN : WaterUpdate(enabled)

\* the food and water of one entity on a map that is reloaded
SurvivalNext ==
  \/ \E md \in MapDicts : MapReset(md)
  \/ \E p \in PlayArea : Relocate(p)
  \/ \E enabled \in BOOLEAN : FoodUpdate(enabled)
  \/ \E enabled \in BOOLEAN : WaterUpdate(enabled)

\* the water skill of one entity on a map whose tiles are also harvested
\* directly, with and without depletion
WaterNext ==
  \/ MapReset(1)
  \/ \E t \in HarvestArea, deplete \in BOOLEAN : MapHarvest(t[1], t[2], deplete)
  \/ \E p \in PlayArea : Relocate(p)
  \/ \E enabled \in BOOLEAN : WaterUpdate(enabled)

\* the state of the entity and of the map that the skill updates work on
EntityState ==
  [m |-> MapState, food |-> food, water |-> water, inventory |-> inventory, exp |-> exp]

\* harvest/harvestAdjacent followed, on a loot table, by processDrops: the drops
\* are received while the inventory has space, then the experience is granted
ProcessDrops(st, skill, h) ==
  LET success == h.dropTable # None
  IN [st EXCEPT !.m = h.m,
                !.inventory = IF success THEN Deposit(@, Roll(h.dropTable)) ELSE @,
                !.exp = IF success /\ GrantsXp(skill)
                        THEN [@ EXCEPT ![skill] = @ + PROGRESSION_HARVEST_XP_SCALE
                                                        * PROGRESSION_BASE_XP_SCALE]
                        ELSE @]

\* skill.update(realm, entity) of one skill of the group
SkillUpdate(skill, st, enabled) ==
  CASE skill = "water" ->
         IF ~enabled THEN st
         ELSE LET h == HarvestAdjacent(st.m, ent_pos, "Water", FALSE)
              IN [ProcessDrops(st, skill, h) EXCEPT
                    !.water = SurvivalPool(@, h.dropTable # None)]
    [] skill = "food" ->
         IF ~enabled THEN st
         ELSE LET h == HarvestOwn(st.m, ent_pos, "Forest", TRUE)
              IN [ProcessDrops(st, skill, h) EXCEPT
                    !.food = SurvivalPool(@, h.dropTable # None)]
    [] skill = "fishing" ->
         ProcessDrops(st, skill, HarvestAdjacent(st.m, ent_pos, "Fish", TRUE))
    [] OTHER -> st

\* the orders in which the set SkillGroup.skills can be iterated
IterationOrders ==
  {order \in [1..Cardinality(SkillNames) -> SkillNames] :
     \A i, j \in DOMAIN order : order[i] = order[j] => i = j}

RECURSIVE GroupUpdate(_, _, _)
\* for skill in self.skills: skill.update(realm, entity)
GroupUpdate(order, st, enabled) ==
  IF order = << >> THEN st
  ELSE GroupUpdate(Tail(order), SkillUpdate(Head(order), st, enabled), enabled)

\* SkillGroup.update(realm, entity), the set being iterated in the given order
SkillGroupUpdate(order, enabled) ==
  \E st \in {GroupUpdate(order, EntityState, enabled)} :
  LET granted == {skill \in SkillNames : st.exp[skill] # exp[skill]}
  IN /\ map_loaded
     /\ \A skill \in SkillNames : st.exp[skill] <= MaxExp
     /\ update_list' = st.m.ul
     /\ depleted' = st.m.dep
     /\ countdown' = st.m.cd
     /\ regrowing' = st.m.rg
     /\ mapOp' = st.m.op
     /\ food' = st.food
     /\ water' = st.water
     /\ inventory' = st.inventory
     /\ exp' = st.exp
     /\ level' = [skill \in DOMAIN level |->
                    IF skill \in granted THEN AddXpLevel(exp[skill], st.exp[skill])
                    ELSE level[skill]]
     /\ created' = created \cup granted
     /\ skillOp' = IF granted = {} THEN skillOp
                   ELSE LET skill == CHOOSE s \in granted : TRUE
                        IN [op |-> "add_xp", skill |-> skill,
                            arg |-> PROGRESSION_HARVEST_XP_SCALE,
                            preExp |-> exp[skill], preLevel |-> level[skill]]
     /\ harvOp' = [NoHarvOp EXCEPT !.op = "group", !.enabled = enabled, !.pos = ent_pos,
                                   !.preFood = food, !.preWater = water,
                                   !.preInventory = inventory]
     /\ UNCHANGED <<map_loaded, material, ent_pos, notHarvVars>>

\* all the skills of one entity, updated as a group
GroupNext ==
  \/ \E md \in MapDicts : MapReset(md)
  \/ \E p \in PlayArea : Relocate(p)
  \/ \E order \in IterationOrders, enabled \in BOOLEAN : SkillGroupUpdate(order, enabled)

----------------------------------------------------------------------------
(* Claims on the harvest skills *)

\* C19: a Fishing update harvests only the first neighbour, in the order up,
\* down, left, right, whose state is the material: one Map.harvest call, on
\* that tile, whose loot is processed, and no other matching neighbour is
\* harvested or depleted
C19_FirstMatchWins ==
  harvOp.op = "fishing" =>
    IF harvOp.matching = << >>
    THEN harvOp.calls = << >> /\ ~harvOp.success
    ELSE /\ harvOp.calls = <<harvOp.matching[1]>>
         /\ harvOp.lootFrom = harvOp.matching[1]
         /\ harvOp.success
         /\ \A t \in Range(Tail(harvOp.matching)) : ~depleted[t]

\* the pool after an enabled update of a survival skill, written out
PoolAfter(pre, success) ==
  LET decremented == IF pre < RESOURCE_DEPLETION_RATE THEN 0
                     ELSE pre - RESOURCE_DEPLETION_RATE
      restored == decremented + Restore
  IN IF ~success THEN decremented
     ELSE IF restored > RESOURCE_BASE THEN RESOURCE_BASE ELSE restored

\* the update in harvOp was one of `skill` with the resource system enabled
SurvivalUpdate(skill) == harvOp.op = skill /\ harvOp.enabled

\* C20 as stated: an enabled Food or Water update changes the pool by minus
\* the depletion rate, plus the restore amount if the harvest succeeded; a Food
\* update that finds no forest lowers the food pool by exactly the depletion
\* rate and grants no experience
C20_DecrementThenRestore ==
  /\ SurvivalUpdate("food") =>
       /\ food = harvOp.preFood - RESOURCE_DEPLETION_RATE
                   + (IF harvOp.success THEN Restore ELSE 0)
       /\ ~harvOp.success => food < harvOp.preFood /\ harvOp.xp = 0
  /\ SurvivalUpdate("water") =>
       water = harvOp.preWater - RESOURCE_DEPLETION_RATE
                 + (IF harvOp.success THEN Restore ELSE 0)

\* C20, amended: the pool is a level bounded by 0 and RESOURCE_BASE; an enabled
\* Food or Water update lowers it by the depletion rate, stopping at 0, and
\* then, if and only if the harvest succeeded (Food: the entity's own tile was
\* forest; Water: a neighbour was water), raises it by the restore amount,
\* stopping at RESOURCE_BASE; a Food update that finds no forest lowers a pool
\* of at least the depletion rate by exactly that rate; neither skill is
\* granted experience, and the other pool is left alone
C20_DecrementThenRestoreBounded ==
  /\ SurvivalUpdate("food") =>
       /\ harvOp.success <=> harvOp.matching = <<harvOp.pos>>
       /\ food = PoolAfter(harvOp.preFood, harvOp.success)
       /\ (~harvOp.success /\ harvOp.preFood >= RESOURCE_DEPLETION_RATE) =>
            food = harvOp.preFood - RESOURCE_DEPLETION_RATE
       /\ water = harvOp.preWater
       /\ harvOp.xp = 0 /\ skillOp.op # "add_xp"
  /\ SurvivalUpdate("water") =>
       /\ harvOp.success <=> harvOp.matching # << >>
       /\ water = PoolAfter(harvOp.preWater, harvOp.success)
       /\ food = harvOp.preFood
       /\ harvOp.xp = 0 /\ skillOp.op # "add_xp"
  /\ food \in 0..RESOURCE_BASE
  /\ water \in 0..RESOURCE_BASE

\* the update in harvOp was one of a harvest skill that did not return at once
HarvestUpdate ==
  harvOp.op \in {"fishing", "food", "water"} /\ harvOp.enabled

\* C21: a harvest-skill update grants experience, one add_xp of
\* PROGRESSION_HARVEST_XP_SCALE, exactly when Map.harvest returned a non-empty
\* loot table and the skill is neither Food nor Water; the experience of Food
\* and Water stays at its initial value, a failed harvest grants nothing, and
\* the grant is the same whether the drops were deposited or discarded
C21_HarvestXp ==
  /\ HarvestUpdate =>
       LET returned == harvOp.calls # << >> /\ harvOp.dropTable # None
           granted == returned /\ harvOp.op \notin {"food", "water"}
       IN /\ harvOp.success <=> returned
          /\ (mapOp.op = "harvest" /\ harvOp.calls # << >>) =>
               mapOp.tile = harvOp.lootFrom /\ mapOp.ret = harvOp.dropTable
          /\ harvOp.xp = IF granted THEN PROGRESSION_HARVEST_XP_SCALE ELSE 0
          /\ exp[harvOp.op] = harvOp.preExp + harvOp.xp * PROGRESSION_BASE_XP_SCALE
          /\ granted =>
               skillOp = [op |-> "add_xp", skill |-> harvOp.op,
                          arg |-> PROGRESSION_HARVEST_XP_SCALE,
                          preExp |-> harvOp.preExp, preLevel |-> skillOp.preLevel]
          /\ ~returned => inventory = harvOp.preInventory
  /\ exp["food"] = 0
  /\ exp["water"] = 0

\* a Fishing update whose drop was discarded, the inventory being full, was
\* granted the experience
C21_Witness ==
  /\ harvOp.op = "fishing"
  /\ harvOp.success
  /\ Len(harvOp.preInventory) = INVENTORY_CAPACITY
  /\ inventory = harvOp.preInventory
  /\ harvOp.xp = PROGRESSION_HARVEST_XP_SCALE
  /\ exp["fishing"] > harvOp.preExp

\* a Food update on a forest tile restored a full pool after decrementing it
C20_Witness ==
  /\ SurvivalUpdate("food")
  /\ harvOp.success
  /\ harvOp.preFood = RESOURCE_BASE
  /\ food = RESOURCE_BASE

\* what a SkillGroup.update leaves behind: the pools, the depleted tiles, the
\* inventory and the experience of every skill
Effect(st) ==
  [food |-> st.food, water |-> st.water, depleted |-> st.m.dep,
   inventory |-> st.inventory, exp |-> st.exp]

\* C28: the effect of one SkillGroup.update on the entity (pools, tiles depleted,
\* items in the inventory, experience of every skill) is the same for every
\* order in which the set of skills is iterated.
C28_OrderIndependent ==
  map_loaded =>
    \A enabled \in BOOLEAN :
      Cardinality({Effect(GroupUpdate(order, EntityState, enabled)) :
                     order \in IterationOrders}) = 1

\* the step ends in a Map.harvest call made with deplete=False
HarvestNoDeplete == mapOp'.op = "harvest" /\ ~mapOp'.deplete

\* the step is an enabled Water update
WaterUpdated == harvOp' # harvOp /\ harvOp'.op = "water" /\ harvOp'.enabled

\* C29: Map.harvest(r, c, deplete=False) leaves the pending-regeneration set and
\* the depletion state and regeneration countdown of every tile as they were,
\* and so does every Water update, which harvests its neighbours with
\* deplete=False only, whether it finds water or not.
C29_NoDepleteFrame ==
  [][/\ (HarvestNoDeplete \/ WaterUpdated) =>
          /\ update_list' = update_list
          /\ depleted' = depleted
          /\ countdown' = countdown
          /\ regrowing' = regrowing
     /\ (WaterUpdated /\ harvOp'.calls # << >>) =>
          HarvestNoDeplete /\ mapOp'.tile = harvOp'.calls[Len(harvOp'.calls)]]_vars

\* a Water update took water from a tile while depleted tiles were pending
C29_Witness ==
  /\ harvOp.op = "water"
  /\ harvOp.success
  /\ mapOp.op = "harvest"
  /\ ~mapOp.deplete
  /\ mapOp.tile = harvOp.lootFrom
  /\ update_list # << >>
  /\ \E t \in Tiles : depleted[t]

----------------------------------------------------------------------------
Init == MapInit /\ EntityInit /\ SkillInit /\ GsInit /\ PathInit /\ HarvInit

Next ==
  \/ MapNext
  \/ EntityNext
  \/ SkillNext
  \/ SnapshotNext
  \/ ViewNext
  \/ EventNext
  \/ TickNext
  \/ PathNext
  \/ FishingNext
  \/ SurvivalNext
  \/ HarvestNext
  \/ WaterNext
  \/ GroupNext

Spec == Init /\ [][Next]_vars

\* the map alone: the group stays as constructed
MapSpec == Init /\ [][MapNext]_vars

\* one entity group alone: the map stays as constructed
EntitySpec == Init /\ [][EntityNext]_vars

\* the skills of one entity alone
SkillSpec == Init /\ [][SkillNext]_vars

\* the live tables, generate and the where_in_id calls
SnapshotSpec == Init /\ [][SnapshotNext]_vars

\* one GameState and the queries of its consumers
ViewSpec == Init /\ [][ViewNext]_vars

\* the map reloaded and searched through its pathfinding cache
PathSpec == Init /\ [][PathNext]_vars

\* the GameState of a tick of the entity groups
TickSpec == Init /\ [][TickNext]_vars

\* the event views of the GameState
EventSpec == Init /\ [][EventNext]_vars

\* the fishing skill of one entity
FishingSpec == Init /\ [][FishingNext]_vars

\* the food and water skills of one entity
SurvivalSpec == Init /\ [][SurvivalNext]_vars

\* the fishing, food and water skills of one entity
HarvestSpec == Init /\ [][HarvestNext]_vars

\* the water skill of one entity and the direct harvests of the map
WaterSpec == Init /\ [][WaterNext]_vars

\* all the skills of one entity, updated as a group
GroupSpec == Init /\ [][GroupNext]_vars
====
